---- MODULE Spec2Model ----
(***************************************************************************)
(* MarketSentinel: the dual-pool fund state machine (internal/fund), the   *)
(* tier policy it is driven by (internal/strategy) and the state file.     *)
(*                                                                         *)
(* Representation.  Go float64 amounts are integers in a money unit chosen *)
(* so that every product of the code is exact for the budgets of Budgets   *)
(* (budget*0.70/4.33 = budget*70/433, tier multipliers are hundredths).    *)
(* Scores are integers in units of 0.00001 (1.0 = 100000).  time.Now() is  *)
(* a logical clock.  A []float64 is a Go slice header (arr, off, len) into *)
(* a backing array of the heap, so that sharing between the manager's      *)
(* state and a value copy of it is part of the model.                      *)
(***************************************************************************)
EXTENDS Integers, Sequences, FiniteSets, TLC

VARIABLES
    file,           \* the state file at m.filePath
    state,          \* *m.state, the in-memory FundState (Down: no process)
    heap,           \* backing arrays of the live []float64 slices
    mu,             \* m.mu: 0 when free, else the goroutine holding it
    pc,             \* per goroutine: its position in the Manager method
    frame,          \* per goroutine: method, arguments, locals, result
    clock,          \* the next value time.Now() returns
    cfgBudget,      \* cfg.Fund.MonthlyBudget of the running process
    weeklyLog,      \* history: TotalScore of every weekly investment, in order
    fishSinceReset, \* history: triggered bottom-fish calls since the last reset
    ledger,         \* history: the balances at the start, what the calls returned and added
    task,           \* per goroutine: the scheduler task it runs and what is left of it
    ctxDone,        \* s.Ctx is cancelled
    launched        \* tasks started so far

vars == <<file, state, heap, mu, pc, frame, clock, cfgBudget, weeklyLog, fishSinceReset, ledger,
          task, ctxDone, launched>>

\* The variables of the scheduler's goroutines, which the Manager never touches.
sched == <<task, ctxDone, launched>>

----------------------------------------------------------------------------
(* Bounds of the model *)

\* SaveState calls of the Manager's methods in one run of Spec.
MaxSaves == 2
\* Goroutines calling the Manager concurrently.
NumThreads == 2
\* SaveState calls in one run of SpecWindow, which starts on a full window.
MaxWindowSaves == 5
\* SaveState calls, NewManager's included, in one run of SpecRestart.
MaxRestartSaves == 4

\* Monthly budgets a start can be configured with (positive: Config.Validate).
Budgets == {4330}

----------------------------------------------------------------------------
(* Program constants *)

\* The trailing window of recent scores (manager.go:69).
WindowLen == 12

\* 1.0 on the score scale.
One == 100000

Min(a, b) == IF a < b THEN a ELSE b

----------------------------------------------------------------------------
(* Tier policy *)

\* strategy.Tiers: MinScore, Multiplier and UseReserve (both in hundredths).
Tiers ==
    << [MinScore |->  150000, Tier |-> [Label |-> "extreme-heavy", Multiplier |-> 100, UseReserve |-> 150]],
       [MinScore |->  120000, Tier |-> [Label |-> "heavy",         Multiplier |-> 100, UseReserve |-> 100]],
       [MinScore |->   80000, Tier |-> [Label |-> "add",           Multiplier |-> 100, UseReserve |-> 50]],
       [MinScore |->       0, Tier |-> [Label |-> "normal",        Multiplier |-> 100, UseReserve |-> 0]],
       [MinScore |->  -80000, Tier |-> [Label |-> "reduced",       Multiplier |-> 50,  UseReserve |-> 0]],
       [MinScore |-> -150000, Tier |-> [Label |-> "light/watch",   Multiplier |-> 25,  UseReserve |-> 0]] >>

DefaultTier == [Label |-> "minimum", Multiplier |-> 15, UseReserve |-> 0]

\* Mutant of mapTier: a tier opens only above its MinScore.
mapTierStrict(totalScore) ==
    LET hits == {i \in 1..Len(Tiers) : totalScore > Tiers[i].MinScore}
    IN  IF hits = {} THEN DefaultTier
        ELSE Tiers[CHOOSE i \in hits : \A j \in hits : i <= j].Tier

\* mapTier: the first tier, top-down, whose MinScore the score reaches.
mapTier(totalScore) ==
    LET hits == {i \in 1..Len(Tiers) : totalScore >= Tiers[i].MinScore}
    IN  IF hits = {} THEN DefaultTier
        ELSE Tiers[CHOOSE i \in hits : \A j \in hits : i <= j].Tier

\* The part of Evaluate's signal the Manager reads: TotalScore and Tier.
Signal(totalScore) == [TotalScore |-> totalScore, Tier |-> mapTier(totalScore)]

----------------------------------------------------------------------------
(* Factor scoring (internal/strategy/factors.go) and Evaluate.              *)
(* Prices and RSI values are integers; a 52-week position is the exact     *)
(* fraction [n, d] = n/d; raw scores are on the score scale (1.0 = One),   *)
(* weights are hundredths.  Comparisons of a quotient with a constant are  *)
(* made by cross-multiplication, for the positive divisors of the inputs.  *)

AbsVal(x) == IF x < 0 THEN -x ELSE x

\* Mutant of Factor: Weighted is the raw score.
FactorUnweighted(name, rawScore, weight) ==
    [Name |-> name, RawScore |-> rawScore, Weight |-> weight, Weighted |-> rawScore]

\* model.FactorScore, without its commentary text.
Factor(name, rawScore, weight) ==
    [Name |-> name, RawScore |-> rawScore, Weight |-> weight,
     Weighted |-> (rawScore * weight) \div 100]

\* The nine-step ladder of the MA200 and RSI factors: the score of the first
\* step, in its order, whose bound the metric does not exceed.
Ladder(le(_)) ==
    CASE le(1) -> 200000
      [] le(2) -> 150000
      [] le(3) -> 100000
      [] le(4) -> 50000
      [] le(5) -> 0
      [] le(6) -> -50000
      [] le(7) -> -100000
      [] le(8) -> -150000
      [] OTHER -> -200000

\* Mutant of scoreMA200Deviation: no test for a zero average; the quotient
\* by zero, +Inf for a positive price, falls through the ladder.
scoreMA200DeviationUnguarded(ind) ==
    LET bounds == <<-20, -10, -5, 0, 5, 10, 15, 20>>
        le(i) == (ind.CurrentPrice - ind.MA200) * 100 <= bounds[i] * ind.MA200
    IN  Factor("MA200", Ladder(le), 35)

\* scoreMA200Deviation: deviation = (price - MA200) / MA200 * 100.
scoreMA200Deviation(ind) ==
    IF ind.MA200 = 0
    THEN [Name |-> "MA200", RawScore |-> 0, Weight |-> 35, Weighted |-> 0]
    ELSE LET bounds == <<-20, -10, -5, 0, 5, 10, 15, 20>>
             le(i) == (ind.CurrentPrice - ind.MA200) * 100 <= bounds[i] * ind.MA200
         IN  Factor("MA200", Ladder(le), 35)

\* The ladder both RSI factors use.
RSIScore(rsi) ==
    LET bounds == <<25, 30, 40, 45, 55, 60, 70, 80>>
        le(i) == rsi <= bounds[i]
    IN  Ladder(le)

scoreWeeklyRSI(ind) == Factor("WeeklyRSI", RSIScore(ind.WeeklyRSI), 25)

scoreDailyRSI(ind) == Factor("DailyRSI", RSIScore(ind.DailyRSI), 15)

\* Mutant of score52WeekPosition: above 95 the score is -1.0 whatever the
\* other factors say.
score52WeekPositionCapped(ind, otherFactorsAvg) ==
    LET le(c) == ind.Position52w.n * 100 <= c * ind.Position52w.d
        score == CASE le(10) -> 200000
                   [] le(20) -> 150000
                   [] le(30) -> 100000
                   [] le(40) -> 50000
                   [] le(60) -> 0
                   [] le(70) -> -50000
                   [] le(80) -> -100000
                   [] le(95) -> -150000
                   [] OTHER  -> -100000
    IN  Factor("Position52w", score, 10)

\* score52WeekPosition: pos = Position52w * 100; above 95 the score depends on
\* the mean of the other four raw scores.
score52WeekPosition(ind, otherFactorsAvg) ==
    LET le(c) == ind.Position52w.n * 100 <= c * ind.Position52w.d
        score == CASE le(10) -> 200000
                   [] le(20) -> 150000
                   [] le(30) -> 100000
                   [] le(40) -> 50000
                   [] le(60) -> 0
                   [] le(70) -> -50000
                   [] le(80) -> -100000
                   [] le(95) -> -150000
                   [] OTHER  -> IF otherFactorsAvg < -One THEN -200000 ELSE -100000
    IN  Factor("Position52w", score, 10)

\* Mutant of scoreTrendTracker: the bearish scores mirror the bullish ones.
scoreTrendTrackerSymmetric(ind) ==
    LET bullish == ind.CurrentPrice > ind.MA20w /\ ind.MA20w > ind.MA50w
        bearish == ind.CurrentPrice < ind.MA20w /\ ind.MA20w < ind.MA50w
        near30dHigh == AbsVal(ind.CurrentPrice - ind.High30d) * 100 < ind.High30d
        near30dLow  == AbsVal(ind.CurrentPrice - ind.Low30d) * 100 < ind.Low30d
        score == CASE bullish /\ near30dHigh -> 150000
                   [] bullish                -> 100000
                   [] bearish /\ near30dLow  -> -150000
                   [] bearish                -> -100000
                   [] OTHER                  -> 0
    IN  Factor("Trend", score, 15)

\* Mutant of scoreTrendTracker: a bullish alignment scores 1.5 wherever the
\* price is in its 30-day range.
scoreTrendTrackerHigh(ind) ==
    LET bullish == ind.CurrentPrice > ind.MA20w /\ ind.MA20w > ind.MA50w
        bearish == ind.CurrentPrice < ind.MA20w /\ ind.MA20w < ind.MA50w
        near30dLow  == AbsVal(ind.CurrentPrice - ind.Low30d) * 100 < ind.Low30d
        score == CASE bullish                -> 150000
                   [] bearish /\ near30dLow  -> -100000
                   [] bearish                -> -50000
                   [] OTHER                  -> 0
    IN  Factor("Trend", score, 15)

\* scoreTrendTracker: MA alignment and closeness (under 1%) to the 30-day
\* high or low.
scoreTrendTracker(ind) ==
    LET bullish == ind.CurrentPrice > ind.MA20w /\ ind.MA20w > ind.MA50w
        bearish == ind.CurrentPrice < ind.MA20w /\ ind.MA20w < ind.MA50w
        near30dHigh == AbsVal(ind.CurrentPrice - ind.High30d) * 100 < ind.High30d
        near30dLow  == AbsVal(ind.CurrentPrice - ind.Low30d) * 100 < ind.Low30d
        score == CASE bullish /\ near30dHigh -> 150000
                   [] bullish                -> 100000
                   [] bearish /\ near30dLow  -> -100000
                   [] bearish                -> -50000
                   [] OTHER                  -> 0
    IN  Factor("Trend", score, 15)

\* Mutant of Evaluate: factor 4 gets the sum of the other raw scores, not
\* their mean.
EvaluateSum(ind) ==
    LET f1 == scoreMA200Deviation(ind)
        f2 == scoreWeeklyRSI(ind)
        f3 == scoreDailyRSI(ind)
        f5 == scoreTrendTracker(ind)
        f4 == score52WeekPosition(ind, f1.RawScore + f2.RawScore + f3.RawScore + f5.RawScore)
        totalScore == f1.Weighted + f2.Weighted + f3.Weighted + f4.Weighted + f5.Weighted
    IN  [Factors |-> <<f1, f2, f3, f4, f5>>,
         TotalScore |-> totalScore,
         Tier |-> mapTier(totalScore),
         TriggerType |-> "WEEKLY",
         WarningMsg |-> IF ind.WeeklyRSI > 85 \/ ind.DailyRSI > 85
                        THEN "take-profit" ELSE ""]

\* Mutant of Evaluate: the warning is given from an RSI of 85 on.
EvaluateWarnAt85(ind) ==
    LET f1 == scoreMA200Deviation(ind)
        f2 == scoreWeeklyRSI(ind)
        f3 == scoreDailyRSI(ind)
        f5 == scoreTrendTracker(ind)
        otherFactorsAvg == (f1.RawScore + f2.RawScore + f3.RawScore + f5.RawScore) \div 4
        f4 == score52WeekPosition(ind, otherFactorsAvg)
        totalScore == f1.Weighted + f2.Weighted + f3.Weighted + f4.Weighted + f5.Weighted
    IN  [Factors |-> <<f1, f2, f3, f4, f5>>,
         TotalScore |-> totalScore,
         Tier |-> mapTier(totalScore),
         TriggerType |-> "WEEKLY",
         WarningMsg |-> IF ind.WeeklyRSI >= 85 \/ ind.DailyRSI >= 85
                        THEN "take-profit" ELSE ""]

\* Evaluate, steps a to f.
Evaluate(ind) ==
    LET f1 == scoreMA200Deviation(ind)
        f2 == scoreWeeklyRSI(ind)
        f3 == scoreDailyRSI(ind)
        f5 == scoreTrendTracker(ind)
        otherFactorsAvg == (f1.RawScore + f2.RawScore + f3.RawScore + f5.RawScore) \div 4
        f4 == score52WeekPosition(ind, otherFactorsAvg)
        totalScore == f1.Weighted + f2.Weighted + f3.Weighted + f4.Weighted + f5.Weighted
    IN  [Factors |-> <<f1, f2, f3, f4, f5>>,
         TotalScore |-> totalScore,
         Tier |-> mapTier(totalScore),
         TriggerType |-> "WEEKLY",
         WarningMsg |-> IF ind.WeeklyRSI > 85 \/ ind.DailyRSI > 85
                        THEN "take-profit" ELSE ""]

----------------------------------------------------------------------------
(* Indicator collection (internal/collector, internal/calculator).  What a  *)
(* fetch returns is summarised by the number of bars and by the values the  *)
(* calculators read from them.                                              *)

\* A calculator's (value, error) result.
CalcOk(v) == [err |-> FALSE, v |-> v]
CalcErr == [err |-> TRUE, v |-> 0]

\* CalculateSMA over the closes: an error when there are fewer than period.
CalculateSMA(n, avg, period) == IF n < period THEN CalcErr ELSE CalcOk(avg)

CalculateMA200(dailyBars) == CalculateSMA(dailyBars.n, dailyBars.ma200, 200)
CalculateMA20w(weeklyBars) == CalculateSMA(weeklyBars.n, weeklyBars.ma20, 20)
CalculateMA50w(weeklyBars) == CalculateSMA(weeklyBars.n, weeklyBars.ma50, 50)

\* CalculateRSI: 50 without an error when there are fewer than period+1 bars.
CalculateRSI(bars, period) ==
    IF period <= 0 THEN CalcErr
    ELSE IF bars.n < period + 1 THEN CalcOk(50)
    ELSE CalcOk(bars.rsi)

\* Calculate52WeekRange, Calculate30DayRange: an error on no bars.
Calculate52WeekRange(dailyBars) ==
    IF dailyBars.n = 0 THEN CalcErr ELSE CalcOk([high |-> dailyBars.high52, low |-> dailyBars.low52])
Calculate30DayRange(dailyBars) ==
    IF dailyBars.n = 0 THEN CalcErr ELSE CalcOk([high |-> dailyBars.high30, low |-> dailyBars.low30])

\* Calculate52WeekPosition: the position in the range, clamped to 0..1.
Calculate52WeekPosition(current, high, low) ==
    IF high = low THEN CalcOk([n |-> 1, d |-> 2])
    ELSE IF high < low THEN CalcErr
    ELSE CalcOk([n |-> IF current < low THEN 0
                       ELSE IF current > high THEN high - low
                       ELSE current - low,
                 d |-> high - low])

\* Mutant of Collect: a failed calculation fails the collection too.
CollectStrict(feed) ==
    IF \/ feed.daily.err \/ feed.weekly.err \/ feed.price.err
       \/ CalculateMA200(feed.daily).err
       \/ CalculateMA20w(feed.weekly).err
       \/ CalculateMA50w(feed.weekly).err
       \/ Calculate52WeekRange(feed.daily).err
       \/ Calculate30DayRange(feed.daily).err
    THEN [ok |-> FALSE]
    ELSE [ok |-> TRUE,
          ind |-> [CurrentPrice |-> feed.price.v,
                   MA200 |-> feed.daily.ma200, MA20w |-> feed.weekly.ma20,
                   MA50w |-> feed.weekly.ma50, WeeklyRSI |-> feed.weekly.rsi,
                   DailyRSI |-> feed.daily.rsi,
                   High52w |-> feed.daily.high52, Low52w |-> feed.daily.low52,
                   High30d |-> feed.daily.high30, Low30d |-> feed.daily.low30,
                   Position52w |-> [n |-> 1, d |-> 2]]]

\* Collector.Collect on what the three fetches return: an error when a fetch
\* fails, else the indicators, a failed calculation replaced by its default.
Collect(feed) ==
    IF feed.daily.err \/ feed.weekly.err \/ feed.price.err
    THEN [ok |-> FALSE]
    ELSE LET currentPrice == feed.price.v
             or(r, dflt) == IF r.err THEN dflt ELSE r.v
             flat == [high |-> currentPrice, low |-> currentPrice]
             r52 == or(Calculate52WeekRange(feed.daily), flat)
             r30 == or(Calculate30DayRange(feed.daily), flat)
         IN  [ok |-> TRUE,
              ind |-> [CurrentPrice |-> currentPrice,
                       MA200 |-> or(CalculateMA200(feed.daily), currentPrice),
                       MA20w |-> or(CalculateMA20w(feed.weekly), currentPrice),
                       MA50w |-> or(CalculateMA50w(feed.weekly), currentPrice),
                       WeeklyRSI |-> or(CalculateRSI(feed.weekly, 14), 50),
                       DailyRSI |-> or(CalculateRSI(feed.daily, 14), 50),
                       High52w |-> r52.high, Low52w |-> r52.low,
                       High30d |-> r30.high, Low30d |-> r30.low,
                       Position52w |-> or(Calculate52WeekPosition(currentPrice, r52.high, r52.low),
                                          [n |-> 1, d |-> 2])]]

----------------------------------------------------------------------------
(* Go slices over the heap *)

\* A nil slice: no backing array.
NilSlice == [arr |-> 0, off |-> 0, len |-> 0]

\* cap(s)
Cap(h, s) == IF s.arr = 0 THEN 0 ELSE Len(h[s.arr]) - s.off

\* The elements s[0..len-1] as a sequence.
Elems(h, s) == [i \in 1..s.len |-> h[s.arr][s.off + i]]

Zeros(n) == [i \in 1..n |-> 0]

\* The address of a new allocation: the smallest one not in use.
FreshArr(h) ==
    CHOOSE a \in 1..(Cardinality(DOMAIN h) + 1) :
        a \notin DOMAIN h /\ \A b \in 1..(a - 1) : b \in DOMAIN h

\* Go's growslice for a full []float64 of capacity below 256: it doubles.
GrowCap(oldCap) == IF oldCap = 0 THEN 1 ELSE 2 * oldCap

\* append(s, x): in place when there is room, else into a grown copy.
AppendSlice(h, s, x) ==
    IF s.len < Cap(h, s)
    THEN [heap  |-> [h EXCEPT ![s.arr][s.off + s.len + 1] = x],
          slice |-> [s EXCEPT !.len = @ + 1]]
    ELSE LET a == FreshArr(h)
             n == GrowCap(Cap(h, s))
         IN  [heap  |-> (a :> (Elems(h, s) \o <<x>> \o Zeros(n - s.len - 1))) @@ h,
              slice |-> [arr |-> a, off |-> 0, len |-> s.len + 1]]

\* Mutant of SliceFrom: s[:len(s)-from], the newest entries go.
SliceFromHead(s, from) == [s EXCEPT !.len = s.len - from]

\* s[from:] for 0 <= from <= len(s)
SliceFrom(s, from) == [arr |-> s.arr, off |-> s.off + from, len |-> s.len - from]

\* Garbage collection: only the arrays of `live` stay.
Reclaim(h, live) == [a \in (DOMAIN h) \cap live |-> h[a]]

----------------------------------------------------------------------------
(* FundState and its JSON file *)

\* The zero value of model.FundState.
ZeroState ==
    [MonthlyBudget |-> 0, WeeklyBaseN |-> 0, RegularBalance |-> 0, ReserveBalance |-> 0,
     BottomFishUsedThisWeek |-> FALSE, ConsecutiveHighScoreWeeks |-> 0,
     RecentScores |-> NilSlice,
     LastReplenishAt |-> 0, LastRebalanceAt |-> 0, UpdatedAt |-> 0]

\* No process is running: there is no Manager.
Down == [down |-> TRUE]

Up == state # Down

\* A FundState by value: RecentScores as the sequence of its elements.
Abs(h, st) == [st EXCEPT !.RecentScores = Elems(h, st.RecentScores)]

\* Mutant of Marshal: the bottom-fish flag is not written (json:"-").
MarshalWithoutFlag(h, st) ==
    [monthly_budget |-> st.MonthlyBudget,
     weekly_base_n |-> st.WeeklyBaseN,
     regular_balance |-> st.RegularBalance,
     reserve_balance |-> st.ReserveBalance,
     bottom_fish_used_this_week |-> FALSE,
     consecutive_high_score_weeks |-> st.ConsecutiveHighScoreWeeks,
     recent_scores |-> [null |-> st.RecentScores.arr = 0, elems |-> Elems(h, st.RecentScores)],
     last_replenish_at |-> st.LastReplenishAt,
     last_rebalance_at |-> st.LastRebalanceAt,
     updated_at |-> st.UpdatedAt]

\* json.MarshalIndent of a FundState: a nil slice is written as null.
Marshal(h, st) ==
    [monthly_budget |-> st.MonthlyBudget,
     weekly_base_n |-> st.WeeklyBaseN,
     regular_balance |-> st.RegularBalance,
     reserve_balance |-> st.ReserveBalance,
     bottom_fish_used_this_week |-> st.BottomFishUsedThisWeek,
     consecutive_high_score_weeks |-> st.ConsecutiveHighScoreWeeks,
     recent_scores |-> [null |-> st.RecentScores.arr = 0, elems |-> Elems(h, st.RecentScores)],
     last_replenish_at |-> st.LastReplenishAt,
     last_rebalance_at |-> st.LastRebalanceAt,
     updated_at |-> st.UpdatedAt]

\* The capacity json.Unmarshal's decoder ends with for n elements: it grows
\* the slice by one element at a time (reflect.Value.Grow(1)).
RECURSIVE DecodeCap(_, _)
DecodeCap(c, n) == IF c >= n THEN c ELSE DecodeCap(GrowCap(c), n)

\* Mutant of Unmarshal: the streak counter is not read back.
UnmarshalNoStreak(h, data) ==
    LET rs == data.recent_scores
        a  == FreshArr(h)
        n  == Len(rs.elems)
    IN  [heap  |-> IF rs.null THEN h
                   ELSE (a :> (rs.elems \o Zeros(DecodeCap(0, n) - n))) @@ h,
         state |-> [MonthlyBudget |-> data.monthly_budget,
                    WeeklyBaseN |-> data.weekly_base_n,
                    RegularBalance |-> data.regular_balance,
                    ReserveBalance |-> data.reserve_balance,
                    BottomFishUsedThisWeek |-> data.bottom_fish_used_this_week,
                    ConsecutiveHighScoreWeeks |-> 0,
                    RecentScores |-> IF rs.null THEN NilSlice
                                     ELSE [arr |-> a, off |-> 0, len |-> n],
                    LastReplenishAt |-> data.last_replenish_at,
                    LastRebalanceAt |-> data.last_rebalance_at,
                    UpdatedAt |-> data.updated_at]]

\* json.Unmarshal into a zero FundState: null leaves the slice nil.
Unmarshal(h, data) ==
    LET rs == data.recent_scores
        a  == FreshArr(h)
        n  == Len(rs.elems)
    IN  [heap  |-> IF rs.null THEN h
                   ELSE (a :> (rs.elems \o Zeros(DecodeCap(0, n) - n))) @@ h,
         state |-> [MonthlyBudget |-> data.monthly_budget,
                    WeeklyBaseN |-> data.weekly_base_n,
                    RegularBalance |-> data.regular_balance,
                    ReserveBalance |-> data.reserve_balance,
                    BottomFishUsedThisWeek |-> data.bottom_fish_used_this_week,
                    ConsecutiveHighScoreWeeks |-> data.consecutive_high_score_weeks,
                    RecentScores |-> IF rs.null THEN NilSlice
                                     ELSE [arr |-> a, off |-> 0, len |-> n],
                    LastReplenishAt |-> data.last_replenish_at,
                    LastRebalanceAt |-> data.last_rebalance_at,
                    UpdatedAt |-> data.updated_at]]

\* The state file: missing, cut short by a failed os.WriteFile, or a record.
FileMissing == [kind |-> "missing"]
FilePartial == [kind |-> "partial"]
FileJSON(data) == [kind |-> "json", data |-> data]

\* LoadState: a missing file is the zero state; a file that is no JSON
\* document is an error.
LoadState(h, f) ==
    IF f.kind = "missing" THEN [ok |-> TRUE, heap |-> h, state |-> ZeroState]
    ELSE IF f.kind = "partial" THEN [ok |-> FALSE, heap |-> h, state |-> ZeroState]
    ELSE [ok |-> TRUE] @@ Unmarshal(h, f.data)

\* SaveState's first line: state.UpdatedAt = time.Now().
Stamp(st, now) == [st EXCEPT !.UpdatedAt = now]

\* What os.WriteFile leaves when it fails: the old file when it could not be
\* opened, a file cut short when a write failed after the truncation, the new
\* record when only the close reported an error.
FailedWrite(f, new) == {f, FilePartial, new}

\* Mutant of Seed: the state is seeded from the configuration at every start.
SeedAlways(st, monthlyBudget) ==
    [st EXCEPT !.MonthlyBudget = monthlyBudget,
               !.WeeklyBaseN = (monthlyBudget * 70) \div 433,
               !.RegularBalance = (monthlyBudget * 70) \div 100,
               !.ReserveBalance = (monthlyBudget * 30) \div 100]

\* NewManager's seeding of a fresh state (MonthlyBudget == 0).
Seed(st, monthlyBudget) ==
    IF st.MonthlyBudget = 0
    THEN [st EXCEPT !.MonthlyBudget = monthlyBudget,
                    !.WeeklyBaseN = (monthlyBudget * 70) \div 433,
                    !.RegularBalance = (monthlyBudget * 70) \div 100,
                    !.ReserveBalance = (monthlyBudget * 30) \div 100]
    ELSE st

\* NewManager in a new process (empty heap), its save succeeding.
NewManager(f, monthlyBudget, now) ==
    LET l  == LoadState(<<>>, f)
        st == Stamp(Seed(l.state, monthlyBudget), now)
    IN  [ok |-> l.ok, heap |-> l.heap, state |-> st, file |-> FileJSON(Marshal(l.heap, st))]

----------------------------------------------------------------------------
(* The arithmetic of the Manager's methods *)

\* Mutant of CapTo: the cap is forgotten.
CapToUncapped(amount, balance) == amount

\* if amount > balance { amount = balance }
CapTo(amount, balance) == IF amount > balance THEN balance ELSE amount

\* Mutant of ReserveAmount: the reserve amount follows the tier's Multiplier.
ReserveAmountByMultiplier(st, tier) ==
    CapTo((st.WeeklyBaseN * tier.Multiplier) \div 100, st.ReserveBalance)

\* CalculateWeeklyInvestment: regularAmount and reserveAmount after the caps.
RegularAmount(st, tier) == CapTo((st.WeeklyBaseN * tier.Multiplier) \div 100, st.RegularBalance)
ReserveAmount(st, tier) == CapTo((st.WeeklyBaseN * tier.UseReserve) \div 100, st.ReserveBalance)

\* Mutant of Streak: a week at or below 1.0 leaves the streak as it is.
StreakKept(n, totalScore) == IF totalScore > One THEN n + 1 ELSE n

\* Mutant of Streak: a score of exactly 1.0 extends the streak.
StreakFromOne(n, totalScore) == IF totalScore >= One THEN n + 1 ELSE 0

\* CalculateWeeklyInvestment: the streak of weeks with a score above 1.0.
Streak(n, totalScore) == IF totalScore > One THEN n + 1 ELSE 0

\* CalculateBottomFishInvestment: the multiplier (hundredths) of a score band.
FishMultiplier(totalScore) ==
    IF totalScore > One THEN 150
    ELSE IF totalScore > 0 THEN 100
    ELSE IF totalScore < -50000 THEN 50
    ELSE 75

FishAmount(st, totalScore) ==
    CapTo((st.WeeklyBaseN * FishMultiplier(totalScore)) \div 100, st.ReserveBalance)

\* MonthlyReplenish: what each pool receives.
RegularShare(st) == (st.MonthlyBudget * 70) \div 100
ReserveShare(st) == (st.MonthlyBudget * 30) \div 100

\* Mutant of Rebalance: the emergency top-up is paid out of the regular pool.
RebalanceFromRegular(st) ==
    LET baseN == st.WeeklyBaseN
    IN  IF st.ReserveBalance > 6 * baseN
        THEN LET excess == st.ReserveBalance - 6 * baseN
             IN  [state |-> [st EXCEPT !.ReserveBalance = @ - excess,
                                       !.RegularBalance = @ + excess],
                  msg |-> "excess"]
        ELSE IF st.ConsecutiveHighScoreWeeks >= 4 /\ st.ReserveBalance < 3 * baseN
        THEN LET topUp == 3 * baseN - st.ReserveBalance
             IN  [state |-> [st EXCEPT !.ReserveBalance = @ + topUp,
                                       !.RegularBalance = @ - topUp], msg |-> "topup"]
        ELSE [state |-> st, msg |-> "none"]

\* QuarterlyRebalance: the branch taken, the new balances and the message.
Rebalance(st) ==
    LET baseN == st.WeeklyBaseN
    IN  IF st.ReserveBalance > 6 * baseN
        THEN LET excess == st.ReserveBalance - 6 * baseN
             IN  [state |-> [st EXCEPT !.ReserveBalance = @ - excess,
                                       !.RegularBalance = @ + excess],
                  msg |-> "excess"]
        ELSE IF st.ConsecutiveHighScoreWeeks >= 4 /\ st.ReserveBalance < 3 * baseN
        THEN LET topUp == 3 * baseN - st.ReserveBalance
             IN  [state |-> [st EXCEPT !.ReserveBalance = @ + topUp], msg |-> "topup"]
        ELSE [state |-> st, msg |-> "none"]

----------------------------------------------------------------------------
(* The Manager's methods as functions of the state by value (RecentScores a *)
(* sequence): what one call does when it runs alone.                        *)

\* lines 68-71 on a sequence.
TrackSeq(scores, x) ==
    LET w == Append(scores, x)
    IN  IF Len(w) > WindowLen THEN SubSeq(w, Len(w) - WindowLen + 1, Len(w)) ELSE w

WeeklyEffect(a, totalScore, now) ==
    LET tier == Signal(totalScore).Tier
    IN  [a EXCEPT !.RegularBalance = @ - RegularAmount(a, tier),
                  !.ReserveBalance = @ - ReserveAmount(a, tier),
                  !.RecentScores = TrackSeq(@, totalScore),
                  !.ConsecutiveHighScoreWeeks = Streak(@, totalScore),
                  !.UpdatedAt = now]

FishEffect(a, totalScore, now) ==
    IF a.BottomFishUsedThisWeek THEN a
    ELSE [a EXCEPT !.ReserveBalance = @ - FishAmount(a, totalScore),
                   !.BottomFishUsedThisWeek = TRUE,
                   !.UpdatedAt = now]

MonthlyEffect(a, now) ==
    [a EXCEPT !.RegularBalance = @ + RegularShare(a),
              !.ReserveBalance = @ + ReserveShare(a),
              !.UpdatedAt = now]

QuarterlyEffect(a, now) == Stamp(Rebalance(a).state, now)

ResetEffect(a, now) == [a EXCEPT !.BottomFishUsedThisWeek = FALSE, !.UpdatedAt = now]

Effect(o, totalScore, a, now) ==
    CASE o = "weekly"    -> WeeklyEffect(a, totalScore, now)
      [] o = "fish"      -> FishEffect(a, totalScore, now)
      [] o = "monthly"   -> MonthlyEffect(a, now)
      [] o = "quarterly" -> QuarterlyEffect(a, now)
      [] o = "reset"     -> ResetEffect(a, now)
      [] o = "get"       -> a

\* Whether the method reaches m.save().
Saves(o, a) == o \in {"weekly", "monthly", "quarterly", "reset"}
               \/ (o = "fish" /\ ~a.BottomFishUsedThisWeek)

\* What the method returns for the state it was called in.
Result(o, totalScore, a) ==
    CASE o = "weekly" ->
            LET tier == Signal(totalScore).Tier
            IN  [kind |-> "weekly",
                 finalAmount |-> RegularAmount(a, tier) + ReserveAmount(a, tier),
                 reserveUsed |-> ReserveAmount(a, tier)]
      [] o = "fish" ->
            IF a.BottomFishUsedThisWeek
            THEN [kind |-> "fish", amount |-> 0, triggered |-> FALSE]
            ELSE [kind |-> "fish", amount |-> FishAmount(a, totalScore), triggered |-> TRUE]
      [] o = "quarterly" -> [kind |-> "msg", msg |-> Rebalance(a).msg]
      [] OTHER -> [kind |-> "none"]

----------------------------------------------------------------------------
(* Goroutines calling the Manager *)

Threads == DOMAIN pc

OpNames == {"weekly", "fish", "monthly", "quarterly", "reset", "get"}

\* A goroutine that runs no scheduler task.
NoTask == [kind |-> "none"]

NoPre == [none |-> TRUE]
NoRet == [kind |-> "none"]

IdleFrame(ret) ==
    [op |-> "none", arg |-> 0, x |-> 0, y |-> 0, pre |-> NoPre, saveErr |-> FALSE, ret |-> ret]

\* The first statement of each method after m.mu.Lock().
Entry(o) ==
    CASE o = "weekly"    -> "w_amounts"
      [] o = "fish"      -> "f_check"
      [] o = "monthly"   -> "m_regular"
      [] o = "quarterly" -> "q_rebalance"
      [] o = "reset"     -> "r_clear"
      [] o = "get"       -> "g_copy"

\* The critical sections: every position between Lock and the deferred Unlock.
InCS == {"w_amounts", "w_withdraw", "w_track", "f_check", "f_apply", "m_regular",
         "m_reserve", "q_rebalance", "r_clear", "g_copy", "save", "ret"}

\* The arrays reachable from the manager's state or from a snapshot a caller holds.
LiveArrs(st, fr) ==
    (IF st = Down THEN {} ELSE {st.RecentScores.arr})
    \cup {fr[t].ret.value.RecentScores.arr : t \in {u \in DOMAIN fr : fr[u].ret.kind = "state"}}
    \cup {fr[t].ret.RecentScores.arr : t \in {u \in DOMAIN fr : fr[u].ret.kind = "held"}}

\* A goroutine calls a Manager method and enters its critical section; the
\* value it held from an earlier call is dropped.
Enter(t, o, totalScore) ==
    /\ Up
    /\ pc[t] = "idle"
    /\ mu' = t
    /\ pc' = [pc EXCEPT ![t] = Entry(o)]
    /\ frame' = [frame EXCEPT ![t] = [IdleFrame(NoRet) EXCEPT
                                         !.op = o, !.arg = totalScore,
                                         !.pre = [mem |-> Abs(heap, state), file |-> file]]]
    /\ heap' = Reclaim(heap, LiveArrs(state, frame'))
    /\ UNCHANGED <<file, state, clock, weeklyLog, ledger, fishSinceReset, cfgBudget>>

\* Mutant of Call: the method does not take the mutex.
CallUnlocked(t, o, totalScore) == Enter(t, o, totalScore) /\ UNCHANGED sched

\* The call with its m.mu.Lock(), which blocks until the mutex is free.
Call(t, o, totalScore) == mu = 0 /\ Enter(t, o, totalScore) /\ UNCHANGED sched

\* CalculateWeeklyInvestment, lines 52-62: the two amounts, capped.
WeeklyAmounts(t) ==
    /\ pc[t] = "w_amounts"
    /\ frame' = [frame EXCEPT ![t].x = RegularAmount(state, Signal(frame[t].arg).Tier),
                              ![t].y = ReserveAmount(state, Signal(frame[t].arg).Tier)]
    /\ pc' = [pc EXCEPT ![t] = "w_withdraw"]
    /\ UNCHANGED <<task, ctxDone, launched, file, state, heap, mu, clock, weeklyLog, ledger, fishSinceReset, cfgBudget>>

\* Mutant of WeeklyWithdraw: both amounts are taken out of the regular pool.
WeeklyWithdrawFromRegular(t) ==
    /\ pc[t] = "w_withdraw"
    /\ state' = [state EXCEPT !.RegularBalance = @ - frame[t].x - frame[t].y]
    /\ pc' = [pc EXCEPT ![t] = "w_track"]
    /\ UNCHANGED <<task, ctxDone, launched, file, heap, mu, frame, clock, weeklyLog, ledger, fishSinceReset, cfgBudget>>

\* lines 64-65: both balances are reduced.
WeeklyWithdraw(t) ==
    /\ pc[t] = "w_withdraw"
    /\ state' = [state EXCEPT !.RegularBalance = @ - frame[t].x,
                              !.ReserveBalance = @ - frame[t].y]
    /\ pc' = [pc EXCEPT ![t] = "w_track"]
    /\ UNCHANGED <<task, ctxDone, launched, file, heap, mu, frame, clock, weeklyLog, ledger, fishSinceReset, cfgBudget>>

\* Mutant of TrackScore: a full window is shifted in place, copy(s, s[1:]),
\* and the new score written to its last slot.
TrackScoreShift(h, s, x) ==
    IF s.len = WindowLen
    THEN [heap  |-> [h EXCEPT ![s.arr] =
                        [i \in DOMAIN h[s.arr] |->
                            IF i > s.off /\ i < s.off + s.len THEN h[s.arr][i + 1]
                            ELSE IF i = s.off + s.len THEN x
                            ELSE h[s.arr][i]]],
          slice |-> s]
    ELSE AppendSlice(h, s, x)

\* lines 68-71: append the score, keep the last WindowLen entries.
TrackScore(h, s, x) ==
    LET r == AppendSlice(h, s, x)
    IN  IF r.slice.len > WindowLen
        THEN [heap |-> r.heap, slice |-> SliceFrom(r.slice, r.slice.len - WindowLen)]
        ELSE r

\* lines 67-78: the score window and the streak.
WeeklyTrack(t) ==
    /\ pc[t] = "w_track"
    /\ LET r == TrackScore(heap, state.RecentScores, frame[t].arg)
       IN  /\ state' = [state EXCEPT
                           !.RecentScores = r.slice,
                           !.ConsecutiveHighScoreWeeks = Streak(@, frame[t].arg)]
           /\ heap' = Reclaim(r.heap, LiveArrs(state', frame))
    /\ weeklyLog' = Append(weeklyLog, frame[t].arg)
    /\ pc' = [pc EXCEPT ![t] = "save"]
    /\ UNCHANGED <<task, ctxDone, launched, file, mu, frame, clock, fishSinceReset, ledger, cfgBudget>>

\* Mutant of FishCheck: a refused call still goes through m.save().
FishCheckThenSave(t) ==
    /\ pc[t] = "f_check"
    /\ IF state.BottomFishUsedThisWeek
       THEN /\ pc' = [pc EXCEPT ![t] = "save"]
            /\ frame' = frame
       ELSE /\ pc' = [pc EXCEPT ![t] = "f_apply"]
            /\ frame' = [frame EXCEPT ![t].x = FishAmount(state, frame[t].arg)]
    /\ UNCHANGED <<task, ctxDone, launched, file, state, heap, mu, clock, weeklyLog, ledger, fishSinceReset, cfgBudget>>

\* Mutant of FishCheck: the used-this-week flag is not looked at.
FishCheckIgnoringFlag(t) ==
    /\ pc[t] = "f_check"
    /\ pc' = [pc EXCEPT ![t] = "f_apply"]
    /\ frame' = [frame EXCEPT ![t].x = FishAmount(state, frame[t].arg)]
    /\ UNCHANGED <<task, ctxDone, launched, file, state, heap, mu, clock, weeklyLog, ledger, fishSinceReset, cfgBudget>>

\* CalculateBottomFishInvestment, lines 93-113: used this week, or the amount.
FishCheck(t) ==
    /\ pc[t] = "f_check"
    /\ IF state.BottomFishUsedThisWeek
       THEN /\ pc' = [pc EXCEPT ![t] = "ret"]
            /\ frame' = frame
       ELSE /\ pc' = [pc EXCEPT ![t] = "f_apply"]
            /\ frame' = [frame EXCEPT ![t].x = FishAmount(state, frame[t].arg)]
    /\ UNCHANGED <<task, ctxDone, launched, file, state, heap, mu, clock, weeklyLog, ledger, fishSinceReset, cfgBudget>>

\* Mutant of FishApply: with nothing to withdraw the call is not counted.
FishApplyIfFunded(t) ==
    /\ pc[t] = "f_apply"
    /\ IF frame[t].x = 0
       THEN /\ pc' = [pc EXCEPT ![t] = "ret"]
            /\ UNCHANGED <<state, frame, fishSinceReset>>
       ELSE /\ state' = [state EXCEPT !.ReserveBalance = @ - frame[t].x,
                                      !.BottomFishUsedThisWeek = TRUE]
            /\ frame' = [frame EXCEPT ![t].y = 1]
            /\ fishSinceReset' = fishSinceReset + 1
            /\ pc' = [pc EXCEPT ![t] = "save"]
    /\ UNCHANGED <<task, ctxDone, launched, file, heap, mu, clock, weeklyLog, ledger, cfgBudget>>

\* lines 115-116: the reserve pool is debited and the flag set.
FishApply(t) ==
    /\ pc[t] = "f_apply"
    /\ state' = [state EXCEPT !.ReserveBalance = @ - frame[t].x,
                              !.BottomFishUsedThisWeek = TRUE]
    /\ frame' = [frame EXCEPT ![t].y = 1]
    /\ fishSinceReset' = fishSinceReset + 1
    /\ pc' = [pc EXCEPT ![t] = "save"]
    /\ UNCHANGED <<task, ctxDone, launched, file, heap, mu, clock, weeklyLog, ledger, cfgBudget>>

\* MonthlyReplenish, line 130.
\* Mutant of MonthlyRegular: the weekly base is derived again from the pool.
MonthlyRegularRebase(t) ==
    /\ pc[t] = "m_regular"
    /\ state' = [state EXCEPT !.RegularBalance = @ + RegularShare(state),
                              !.WeeklyBaseN = (100 * (state.RegularBalance + RegularShare(state))) \div 433]
    /\ pc' = [pc EXCEPT ![t] = "m_reserve"]
    /\ UNCHANGED <<task, ctxDone, launched, file, heap, mu, frame, clock, weeklyLog, ledger, fishSinceReset, cfgBudget>>

MonthlyRegular(t) ==
    /\ pc[t] = "m_regular"
    /\ state' = [state EXCEPT !.RegularBalance = @ + RegularShare(state)]
    /\ pc' = [pc EXCEPT ![t] = "m_reserve"]
    /\ UNCHANGED <<task, ctxDone, launched, file, heap, mu, frame, clock, weeklyLog, ledger, fishSinceReset, cfgBudget>>

\* Mutant of MonthlyReserve: the reserve pool is refilled up to 6N only.
MonthlyReserveCapped(t) ==
    /\ pc[t] = "m_reserve"
    /\ state' = [state EXCEPT !.ReserveBalance =
                    IF @ + ReserveShare(state) > 6 * state.WeeklyBaseN
                    THEN (IF @ > 6 * state.WeeklyBaseN THEN @ ELSE 6 * state.WeeklyBaseN)
                    ELSE @ + ReserveShare(state)]
    /\ pc' = [pc EXCEPT ![t] = "save"]
    /\ UNCHANGED <<task, ctxDone, launched, file, heap, mu, frame, clock, weeklyLog, ledger, fishSinceReset, cfgBudget>>

\* MonthlyReplenish, line 131.
MonthlyReserve(t) ==
    /\ pc[t] = "m_reserve"
    /\ state' = [state EXCEPT !.ReserveBalance = @ + ReserveShare(state)]
    /\ pc' = [pc EXCEPT ![t] = "save"]
    /\ UNCHANGED <<task, ctxDone, launched, file, heap, mu, frame, clock, weeklyLog, ledger, fishSinceReset, cfgBudget>>

\* QuarterlyRebalance, lines 145-159: one of the three branches.
QuarterlyBranch(t) ==
    /\ pc[t] = "q_rebalance"
    /\ state' = Rebalance(state).state
    /\ frame' = [frame EXCEPT ![t].x = CASE Rebalance(state).msg = "excess" -> 1
                                         [] Rebalance(state).msg = "topup" -> 2
                                         [] OTHER -> 0]
    /\ pc' = [pc EXCEPT ![t] = "save"]
    /\ UNCHANGED <<task, ctxDone, launched, file, heap, mu, clock, weeklyLog, ledger, fishSinceReset, cfgBudget>>

\* Mutant of ResetClear: the week's reset starts the streak afresh as well.
ResetClearStreak(t) ==
    /\ pc[t] = "r_clear"
    /\ state' = [state EXCEPT !.BottomFishUsedThisWeek = FALSE,
                              !.ConsecutiveHighScoreWeeks = 0]
    /\ fishSinceReset' = 0
    /\ pc' = [pc EXCEPT ![t] = "save"]
    /\ UNCHANGED <<task, ctxDone, launched, file, heap, mu, frame, clock, weeklyLog, ledger, cfgBudget>>

\* ResetWeeklyFlags, line 173.
ResetClear(t) ==
    /\ pc[t] = "r_clear"
    /\ state' = [state EXCEPT !.BottomFishUsedThisWeek = FALSE]
    /\ fishSinceReset' = 0
    /\ pc' = [pc EXCEPT ![t] = "save"]
    /\ UNCHANGED <<task, ctxDone, launched, file, heap, mu, frame, clock, weeklyLog, ledger, cfgBudget>>

\* GetState, line 44: return *m.state, a copy of the struct (the slice header
\* of RecentScores is copied, its backing array is not).
Snapshot(st) == [kind |-> "state", value |-> st]

GetCopy(t) ==
    /\ pc[t] = "g_copy"
    /\ frame' = [frame EXCEPT ![t].ret = Snapshot(state)]
    /\ pc' = [pc EXCEPT ![t] = "ret"]
    /\ UNCHANGED <<task, ctxDone, launched, file, state, heap, mu, clock, weeklyLog, ledger, fishSinceReset, cfgBudget>>

\* Mutant of Persist: the balances are patched into the record on disk.
PersistPatch(h, st) ==
    IF file.kind = "json"
    THEN FileJSON([file.data EXCEPT !.regular_balance = st.RegularBalance,
                                    !.reserve_balance = st.ReserveBalance,
                                    !.updated_at = st.UpdatedAt])
    ELSE FileJSON(Marshal(h, st))

\* Mutant of Persist: write-behind, the file is not written before the return.
PersistLater(h, st) == file

\* What SaveState writes when os.WriteFile succeeds: the whole stamped state.
Persist(h, st) == FileJSON(Marshal(h, st))

\* m.save() succeeds: the state is stamped and the file rewritten in full.
SaveOk(t) ==
    /\ pc[t] = "save"
    /\ state' = Stamp(state, clock)
    /\ file' = Persist(heap, state')
    /\ clock' = clock + 1
    /\ pc' = [pc EXCEPT ![t] = "ret"]
    /\ UNCHANGED <<task, ctxDone, launched, heap, mu, frame, weeklyLog, ledger, fishSinceReset, cfgBudget>>

\* Mutant of SaveFail: the balances are rolled back when the write fails.
SaveFailRollback(t) ==
    /\ pc[t] = "save"
    /\ state' = [Stamp(state, clock) EXCEPT
                    !.RegularBalance = frame[t].pre.mem.RegularBalance,
                    !.ReserveBalance = frame[t].pre.mem.ReserveBalance]
    /\ file' \in FailedWrite(file, Persist(heap, state'))
    /\ clock' = clock + 1
    /\ frame' = [frame EXCEPT ![t].saveErr = TRUE]
    /\ pc' = [pc EXCEPT ![t] = "ret"]
    /\ UNCHANGED <<task, ctxDone, launched, heap, mu, weeklyLog, ledger, fishSinceReset, cfgBudget>>

\* m.save() fails: the state is stamped all the same, the error is logged.
SaveFail(t) ==
    /\ pc[t] = "save"
    /\ state' = Stamp(state, clock)
    /\ file' \in FailedWrite(file, Persist(heap, state'))
    /\ clock' = clock + 1
    /\ frame' = [frame EXCEPT ![t].saveErr = TRUE]
    /\ pc' = [pc EXCEPT ![t] = "ret"]
    /\ UNCHANGED <<task, ctxDone, launched, heap, mu, weeklyLog, ledger, fishSinceReset, cfgBudget>>

\* Mutant of RetValue: finalAmount is the regular pool's part alone.
RetValueRegularOnly(f) ==
    CASE f.op = "weekly"    -> [kind |-> "weekly", finalAmount |-> f.x, reserveUsed |-> f.y]
      [] f.op = "fish"      -> [kind |-> "fish", amount |-> IF f.y = 1 THEN f.x ELSE 0,
                                triggered |-> f.y = 1]
      [] f.op = "quarterly" -> [kind |-> "msg", msg |-> CASE f.x = 1 -> "excess"
                                                          [] f.x = 2 -> "topup"
                                                          [] OTHER -> "none"]
      [] f.op = "get"       -> f.ret
      [] OTHER              -> NoRet

\* The value the method's return statement yields.
RetValue(f) ==
    CASE f.op = "weekly"    -> [kind |-> "weekly", finalAmount |-> f.x + f.y, reserveUsed |-> f.y]
      [] f.op = "fish"      -> [kind |-> "fish", amount |-> IF f.y = 1 THEN f.x ELSE 0,
                                triggered |-> f.y = 1]
      [] f.op = "quarterly" -> [kind |-> "msg", msg |-> CASE f.x = 1 -> "excess"
                                                          [] f.x = 2 -> "topup"
                                                          [] OTHER -> "none"]
      [] f.op = "get"       -> f.ret
      [] OTHER              -> NoRet

\* What the caller keeps of a result that can still be written through: of a
\* FundState copy the RecentScores slice header, with the elements it saw.
Held(h, r) ==
    IF r.kind = "state"
    THEN [kind |-> "held", RecentScores |-> r.value.RecentScores,
          seen |-> Elems(h, r.value.RecentScores)]
    ELSE NoRet

\* The books of a process whose fund holds the balances of st and which has
\* called nothing yet.
Opening(st) ==
    [initial |-> IF st = Down THEN 0 ELSE st.RegularBalance + st.ReserveBalance,
     paid |-> 0, replenished |-> 0, toppedUp |-> 0]

\* The books after the call of frame f has returned: what the caller was
\* told to invest (lines 83 and 122), the budget a MonthlyReplenish added
\* (lines 130-131), the top-up of a QuarterlyRebalance (lines 152-153).
Booked(l, f) ==
    LET a == f.pre.mem
        r == RetValue(f)
    IN  CASE f.op = "weekly"    -> [l EXCEPT !.paid = @ + r.finalAmount]
          [] f.op = "fish"      -> [l EXCEPT !.paid = @ + (IF r.triggered THEN r.amount ELSE 0)]
          [] f.op = "monthly"   -> [l EXCEPT !.replenished = @ + a.MonthlyBudget]
          [] f.op = "quarterly" ->
                [l EXCEPT !.toppedUp = @ + (IF r.msg = "topup"
                                            THEN 3 * a.WeeklyBaseN - a.ReserveBalance ELSE 0)]
          [] OTHER              -> l

\* Mutant of Leave: the method returns without unlocking.
LeaveLocked(t) ==
    /\ pc[t] = "ret"
    /\ mu' = mu
    /\ pc' = [pc EXCEPT ![t] = "idle"]
    /\ frame' = [frame EXCEPT ![t] = IdleFrame(NoRet)]
    /\ heap' = Reclaim(heap, LiveArrs(state, frame'))
    /\ ledger' = Booked(ledger, frame[t])
    /\ UNCHANGED <<file, state, clock, weeklyLog, fishSinceReset, cfgBudget>>

\* return, then the deferred m.mu.Unlock().
Leave(t) ==
    /\ pc[t] = "ret"
    /\ mu' = 0
    /\ pc' = [pc EXCEPT ![t] = "idle"]
    /\ frame' = [frame EXCEPT ![t] = IdleFrame(NoRet)]
    /\ heap' = Reclaim(heap, LiveArrs(state, frame'))
    /\ ledger' = Booked(ledger, frame[t])
    /\ UNCHANGED <<file, state, clock, weeklyLog, fishSinceReset, cfgBudget>>

\* The method returns to a caller that uses the result at once.
Return(t) == Leave(t) /\ UNCHANGED sched

\* GetState returns to a caller that keeps the copy (stateBefore, updatedState
\* of the scheduler's tasks) while other calls go on.
ReturnHold(t) ==
    /\ pc[t] = "ret"
    /\ frame[t].op = "get"
    /\ mu' = 0
    /\ pc' = [pc EXCEPT ![t] = "idle"]
    /\ frame' = [frame EXCEPT ![t] = IdleFrame(Held(heap, RetValue(frame[t])))]
    /\ UNCHANGED <<task, ctxDone, launched, file, state, heap, clock, weeklyLog, ledger, fishSinceReset, cfgBudget>>

----------------------------------------------------------------------------
(* The scheduler's tasks (internal/scheduler) and the notifier's retry loop. *)
(* A task is what is left of it: the sequence todo of its remaining steps,   *)
(* the first of which the goroutine is at (for "collect", "reply" and the    *)
(* attempts of "send": inside the network call).                             *)

NoInd == [none |-> TRUE]
NoSignal == [none |-> TRUE]
NoSend == [at |-> "off"]

\* What recordFundEvent reads of a FundState: the two balances; and, of the
\* state monthlyTask got, the budget.
Balances(st) ==
    [RegularBalance |-> st.RegularBalance, ReserveBalance |-> st.ReserveBalance,
     MonthlyBudget |-> st.MonthlyBudget]

\* The task's local variables that hold balances: gets, the copies GetState
\* returned to it, in their order (state, stateBefore, updatedState or
\* stateAfter), and got, what its mutating call returned.  History: own, the
\* balances that call itself found and left.  recorded is what the task gave
\* the Recorder of them.  They are followed for the tasks LaunchObserved
\* starts.
NoLocals == [gets |-> <<>>, got |-> NoRet, own |-> [op |-> "none"], recorded |-> <<>>]

\* trySend: s.Notifier.SendWithRetry(s.Ctx, text, 3)
TrySendRetries == 3

\* Tasks started in one run.
MaxLaunches == 2

\* Mutant of weeklyTask: the amounts are asked for before the evaluation.
weeklyTaskUnevaluated ==
    <<"collect", "get", "get", "weekly", "evaluate", "get", "send", "record", "event">>

\* The steps of weeklyTask from its first statement; after a failed Collect
\* only the failure notice is left.
weeklyTask == <<"collect", "evaluate", "get", "get", "weekly", "get", "send", "record", "event">>

\* dailyCheck after its Collect: the bottom-fish part when the daily RSI is
\* under 30, then the take-profit part when an RSI is over 85.
dailyCheckAfter(ind) ==
    (IF ind.DailyRSI < 30 THEN <<"evaluate", "get", "fish">> ELSE <<>>)
    \o (IF ind.DailyRSI > 85 \/ ind.WeeklyRSI > 85 THEN <<"send", "record">> ELSE <<>>)

\* dailyCheck after a triggered bottom-fish call.
dailyTriggered == <<"send", "get", "record", "event">>

monthlyTask == <<"get", "monthly", "get", "send", "record", "event">>

quarterlyTask == <<"get", "quarterly", "get", "send", "record", "event">>

\* The cron job of RegisterAll that resets the weekly flags.
weeklyReset == <<"reset">>

\* Mutant of HandleCommand: the monthly-report command runs the monthly task.
HandleCommandReplenish(command) ==
    CASE command = "/weekly"  -> weeklyTask
      [] command = "/fund"    -> <<"get", "reply">>
      [] command = "/monthly" -> monthlyTask
      [] OTHER                -> <<"reply">>

\* HandleCommand, then StartPolling's t.Send of a reply that is not empty.
HandleCommand(command) ==
    CASE command = "/weekly"  -> weeklyTask
      [] command = "/fund"    -> <<"get", "reply">>
      [] command = "/monthly" -> <<"get", "reply">>
      [] OTHER                -> <<"reply">>

Commands == {"/weekly", "/fund", "/monthly", "/help"}

\* The triggers: the five cron jobs and the commands of the polling loop.
Triggers == {"weekly", "daily", "monthly", "quarterly", "reset"} \cup Commands

Program(kind) ==
    CASE kind = "weekly"    -> weeklyTask
      [] kind = "daily"     -> <<"collect">>
      [] kind = "monthly"   -> monthlyTask
      [] kind = "quarterly" -> quarterlyTask
      [] kind = "reset"     -> weeklyReset
      [] OTHER              -> HandleCommand(kind)

\* A goroutine at the first statement of a task.
StartTask(kind) ==
    [kind |-> kind, todo |-> Program(kind), ind |-> NoInd, signal |-> NoSignal,
     collectErr |-> FALSE, send |-> NoSend, calls |-> 0]

Running(t) == task[t].kind \in Triggers
At(t, step) == Running(t) /\ task[t].todo # <<>> /\ Head(task[t].todo) = step
Observed(t) == Running(t) /\ "gets" \in DOMAIN task[t]

\* cron starts a job in a goroutine of its own; the polling loop gets a command.
Launch(t, kind) ==
    /\ Up
    /\ ~ctxDone
    /\ launched < MaxLaunches
    /\ task[t] = NoTask
    /\ pc[t] = "idle"
    /\ task' = [task EXCEPT ![t] = StartTask(kind)]
    /\ launched' = launched + 1
    /\ UNCHANGED <<file, state, heap, mu, pc, frame, clock, cfgBudget, weeklyLog, ledger,
                   fishSinceReset, ctxDone>>

\* Launch, of a task whose local variables are followed.
LaunchObserved(t, kind) ==
    /\ Up
    /\ ~ctxDone
    /\ launched < MaxLaunches
    /\ task[t] = NoTask
    /\ pc[t] = "idle"
    /\ task' = [task EXCEPT ![t] = StartTask(kind) @@ NoLocals]
    /\ launched' = launched + 1
    /\ UNCHANGED <<file, state, heap, mu, pc, frame, clock, cfgBudget, weeklyLog, ledger,
                   fishSinceReset, ctxDone>>

\* s.Collector.Collect() returns, lines 151-156 and 190-194.
TaskCollect(t, feed) ==
    /\ At(t, "collect")
    /\ LET r == Collect(feed)
           k == task[t].kind
       IN  task' = [task EXCEPT ![t] =
                IF r.ok
                THEN [@ EXCEPT !.ind = r.ind,
                               !.todo = IF k = "daily" THEN dailyCheckAfter(r.ind)
                                        ELSE Tail(@)]
                ELSE [@ EXCEPT !.collectErr = TRUE,
                               !.todo = IF k = "daily" THEN <<>> ELSE <<"send">>]]
    /\ UNCHANGED <<file, state, heap, mu, pc, frame, clock, cfgBudget, weeklyLog, ledger,
                   fishSinceReset, ctxDone, launched>>

\* signal := strategy.Evaluate(ind)
TaskEvaluate(t) ==
    /\ At(t, "evaluate")
    /\ task' = [task EXCEPT ![t].signal = Evaluate(task[t].ind), ![t].todo = Tail(@)]
    /\ UNCHANGED <<file, state, heap, mu, pc, frame, clock, cfgBudget, weeklyLog, ledger,
                   fishSinceReset, ctxDone, launched>>

\* The argument of the Manager call the task is at.
CallArg(t) ==
    IF Head(task[t].todo) \in {"weekly", "fish"} THEN task[t].signal.TotalScore ELSE 0

\* The task calls the Manager method it is at: m.mu.Lock() blocks until the
\* mutex is free.
TaskCall(t) ==
    /\ Running(t)
    /\ task[t].todo # <<>>
    /\ Head(task[t].todo) \in OpNames
    /\ mu = 0
    /\ Enter(t, Head(task[t].todo), CallArg(t))
    /\ task' = [task EXCEPT ![t].calls = IF Head(task[t].todo) = "get" THEN @ ELSE @ + 1]
    /\ UNCHANGED <<ctxDone, launched>>

\* Mutant of TaskReturn: the task goes on before the method has unlocked.
TaskReturnInside(t) ==
    /\ Running(t)
    /\ pc[t] = "ret"
    /\ task' = [task EXCEPT ![t].todo = Tail(@)]
    /\ UNCHANGED <<file, state, heap, mu, pc, frame, clock, cfgBudget, weeklyLog, ledger,
                   fishSinceReset, ctxDone, launched>>

\* The Manager method returns to the task, which goes on: after the
\* bottom-fish call with lines 201-214 when it was triggered.  The task keeps
\* the balances of the copies GetState gave it and what its mutating call
\* returned.
TaskReturn(t) ==
    /\ Running(t)
    /\ Leave(t)
    /\ LET got  == RetValue(frame[t])
           rest == Tail(task[t].todo)
           op   == frame[t].op
           next == IF Head(task[t].todo) = "fish" /\ got.triggered
                   THEN dailyTriggered \o rest ELSE rest
       IN  task' = [task EXCEPT ![t] =
                      IF ~Observed(t) THEN [@ EXCEPT !.todo = next]
                      ELSE IF op = "get"
                      THEN [@ EXCEPT !.todo = next,
                                     !.gets = Append(@, Balances(got.value))]
                      ELSE [@ EXCEPT !.todo = next,
                                     !.got = got,
                                     !.own = [op |-> op,
                                              before |-> Balances(frame[t].pre.mem),
                                              after |-> Balances(state)]]]
    /\ UNCHANGED <<ctxDone, launched>>

\* trySend calls SendWithRetry: i = 0, the first t.Send(text) begins.
SendWithRetry(t, maxRetries) ==
    /\ At(t, "send")
    /\ task[t].send = NoSend
    /\ task' = [task EXCEPT ![t].send =
                   [at |-> IF 0 <= maxRetries THEN "attempt" ELSE "exhausted",
                    i |-> 0, maxRetries |-> maxRetries, attempts |-> 0, waits |-> <<>>,
                    out |-> "none",
                    cancelSeen |-> IF ctxDone THEN "before" ELSE "no", attemptsThen |-> 0]]
    /\ UNCHANGED <<file, state, heap, mu, pc, frame, clock, cfgBudget, weeklyLog, ledger,
                   fishSinceReset, ctxDone, launched>>

\* SendWithRetry is at a return statement: out is nil ("ok"), ctx.Err() ("ctx")
\* or the error of the exhausted retries.
SendResult(tk, out) == [tk EXCEPT !.send.at = "return", !.send.out = out]

Sending(t, at) == At(t, "send") /\ task[t].send.at = at

\* t.Send(text) succeeds: return nil.
SendOk(t) ==
    /\ Sending(t, "attempt")
    /\ task' = [task EXCEPT ![t] =
                   SendResult([@ EXCEPT !.send.attempts = @ + 1], "ok")]
    /\ UNCHANGED <<file, state, heap, mu, pc, frame, clock, cfgBudget, weeklyLog, ledger,
                   fishSinceReset, ctxDone, launched>>

\* Mutant of SendFail: the backoff is one second every time.
SendFailFixedBackoff(t) ==
    /\ Sending(t, "attempt")
    /\ task' = [task EXCEPT ![t].send.attempts = @ + 1,
                            ![t].send.waits = Append(@, 1),
                            ![t].send.at = "wait"]
    /\ UNCHANGED <<file, state, heap, mu, pc, frame, clock, cfgBudget, weeklyLog, ledger,
                   fishSinceReset, ctxDone, launched>>

\* t.Send(text) fails: backoff = 1<<i seconds, then the select.
SendFail(t) ==
    /\ Sending(t, "attempt")
    /\ task' = [task EXCEPT ![t].send.attempts = @ + 1,
                            ![t].send.waits = Append(@, 2 ^ task[t].send.i),
                            ![t].send.at = "wait"]
    /\ UNCHANGED <<file, state, heap, mu, pc, frame, clock, cfgBudget, weeklyLog, ledger,
                   fishSinceReset, ctxDone, launched>>

\* case <-time.After(backoff): continue; the loop goes on with i+1, or ends.
BackoffElapsed(t) ==
    /\ Sending(t, "wait")
    /\ ~ctxDone
    /\ task' = [task EXCEPT ![t].send.i = @ + 1,
                            ![t].send.at = IF task[t].send.i + 1 <= task[t].send.maxRetries
                                           THEN "attempt" ELSE "exhausted"]
    /\ UNCHANGED <<file, state, heap, mu, pc, frame, clock, cfgBudget, weeklyLog, ledger,
                   fishSinceReset, ctxDone, launched>>

\* Mutant of SendCancelled: the cancelled wait goes on to the next attempt.
SendCancelledRetry(t) ==
    /\ Sending(t, "wait")
    /\ ctxDone
    /\ task' = [task EXCEPT ![t].send.i = @ + 1,
                            ![t].send.at = IF task[t].send.i + 1 <= task[t].send.maxRetries
                                           THEN "attempt" ELSE "exhausted"]
    /\ UNCHANGED <<file, state, heap, mu, pc, frame, clock, cfgBudget, weeklyLog, ledger,
                   fishSinceReset, ctxDone, launched>>

\* case <-ctx.Done(): return ctx.Err()
SendCancelled(t) ==
    /\ Sending(t, "wait")
    /\ ctxDone
    /\ task' = [task EXCEPT ![t] = SendResult(@, "ctx")]
    /\ UNCHANGED <<file, state, heap, mu, pc, frame, clock, cfgBudget, weeklyLog, ledger,
                   fishSinceReset, ctxDone, launched>>

\* return fmt.Errorf("all %d retries exhausted: %w", ...)
SendExhausted(t) ==
    /\ Sending(t, "exhausted")
    /\ task' = [task EXCEPT ![t] = SendResult(@, "exhausted")]
    /\ UNCHANGED <<file, state, heap, mu, pc, frame, clock, cfgBudget, weeklyLog, ledger,
                   fishSinceReset, ctxDone, launched>>

\* SendWithRetry returns to trySend, which logs an error; the task goes on.
TrySendReturn(t) ==
    /\ Sending(t, "return")
    /\ task' = [task EXCEPT ![t].send = NoSend, ![t].todo = Tail(@)]
    /\ UNCHANGED <<file, state, heap, mu, pc, frame, clock, cfgBudget, weeklyLog, ledger,
                   fishSinceReset, ctxDone, launched>>

\* StartPolling sends a command's reply with one t.Send, failed or not.
TaskReply(t) ==
    /\ At(t, "reply")
    /\ task' = [task EXCEPT ![t].todo = Tail(@)]
    /\ UNCHANGED <<file, state, heap, mu, pc, frame, clock, cfgBudget, weeklyLog, ledger,
                   fishSinceReset, ctxDone, launched>>

\* recordFundEvent: the FundEvent given to the Recorder, without its note.
recordFundEvent(eventType, before, after, amount) ==
    [EventType |-> eventType,
     RegularBefore |-> before.RegularBalance, RegularAfter |-> after.RegularBalance,
     ReserveBefore |-> before.ReserveBalance, ReserveAfter |-> after.ReserveBalance,
     Amount |-> amount]

\* quarterlyTask, lines 269-277: action and amount from the two copies.
quarterlyAction(stateBefore, st) ==
    IF st.ReserveBalance < stateBefore.ReserveBalance
    THEN [EventType |-> "QuarterlyEvent", Action |-> "TRANSFER_EXCESS",
          Amount |-> stateBefore.ReserveBalance - st.ReserveBalance]
    ELSE IF st.ReserveBalance > stateBefore.ReserveBalance
    THEN [EventType |-> "QuarterlyEvent", Action |-> "EMERGENCY_TOPUP",
          Amount |-> st.ReserveBalance - stateBefore.ReserveBalance]
    ELSE [EventType |-> "QuarterlyEvent", Action |-> "NO_ACTION", Amount |-> 0]

\* The s.recordFundEvent call that ends each task: before is the copy taken
\* just before the Manager call, after the one taken after it.
TaskEvent(tk) ==
    LET before == tk.gets[Len(tk.gets) - 1]
        after  == tk.gets[Len(tk.gets)]
    IN  CASE tk.own.op = "weekly" ->
                recordFundEvent("WEEKLY", before, after,
                                tk.got.finalAmount + tk.got.reserveUsed)
          [] tk.own.op = "fish" ->
                recordFundEvent("BOTTOM_FISH", before, after, tk.got.amount)
          [] tk.own.op = "monthly" ->
                recordFundEvent("MONTHLY", before, after, after.MonthlyBudget)
          [] tk.own.op = "quarterly" ->
                recordFundEvent("QUARTERLY", before, after, quarterlyAction(before, after).Amount)

\* s.Recorder.Record...(...), s.recordFundEvent(...): the local recorder.  Of
\* an observed task the FundEvent is kept, and RecordQuarterly's QuarterlyEvent.
TaskRecord(t) ==
    /\ At(t, "record") \/ At(t, "event")
    /\ task' = [task EXCEPT ![t] =
                   IF ~Observed(t) \/ task[t].own.op = "none" THEN [@ EXCEPT !.todo = Tail(@)]
                   ELSE IF At(t, "event")
                   THEN [@ EXCEPT !.todo = Tail(@), !.recorded = Append(@, TaskEvent(task[t]))]
                   ELSE IF task[t].own.op = "quarterly"
                   THEN [@ EXCEPT !.todo = Tail(@),
                                  !.recorded = Append(@, quarterlyAction(
                                      task[t].gets[Len(task[t].gets) - 1],
                                      task[t].gets[Len(task[t].gets)]))]
                   ELSE [@ EXCEPT !.todo = Tail(@)]]
    /\ UNCHANGED <<file, state, heap, mu, pc, frame, clock, cfgBudget, weeklyLog, ledger,
                   fishSinceReset, ctxDone, launched>>

\* The task's function returns; its goroutine ends.
TaskDone(t) ==
    /\ Running(t)
    /\ task[t].todo = <<>>
    /\ task' = [task EXCEPT ![t] = NoTask]
    /\ UNCHANGED <<file, state, heap, mu, pc, frame, clock, cfgBudget, weeklyLog, ledger,
                   fishSinceReset, ctxDone, launched>>

\* main: cancel() on a shutdown signal.  History: each retry loop notes where
\* the cancellation found it, and the attempts it had made.
Cancel ==
    /\ Up
    /\ ~ctxDone
    /\ ctxDone' = TRUE
    /\ task' = [t \in DOMAIN task |->
                  IF Running(t) /\ task[t].send # NoSend /\ task[t].send.at # "return"
                  THEN [task[t] EXCEPT !.send.cancelSeen = task[t].send.at,
                                       !.send.attemptsThen = task[t].send.attempts]
                  ELSE task[t]]
    /\ UNCHANGED <<file, state, heap, mu, pc, frame, clock, cfgBudget, weeklyLog, ledger,
                   fishSinceReset, launched>>

----------------------------------------------------------------------------
(* Specifications *)

\* Scores of the weekly calls: one in every tier, on both sides of the streak
\* threshold 1.0 and of the threshold 0.8 of the reserve-drawing tiers.
Scores == {160000, 130000, 100000, 80000, 79999, 50000, -60000, -100000, -160000}

\* Scores of the bottom-fish calls: one in every band and the band edges 1.0,
\* 0 and -0.5.
FishScores == {130000, 100000, 50000, 0, -50000, -60000}

OpScores(o) == IF o = "weekly" THEN Scores ELSE IF o = "fish" THEN FishScores ELSE {0}

Call3(o, n) == [i \in 1..n |-> [op |-> o, arg |-> 0]]

\* What an earlier run of the program did before it was stopped: nothing (the
\* first start), three monthly replenishments, four heavy weeks, a bottom-fish.
Histories ==
    { <<>>,
      Call3("monthly", 3),
      [i \in 1..4 |-> [op |-> "weekly", arg |-> 130000]],
      <<[op |-> "fish", arg |-> 50000]>> }

\* The state by value after the calls of history h, each running alone.
RECURSIVE RunHistory(_, _)
RunHistory(h, a) ==
    IF h = <<>> THEN a
    ELSE RunHistory(Tail(h), Effect(Head(h).op, Head(h).arg, a, 0))

\* The file a state by value is persisted as.
FileOf(a) ==
    FileJSON([Marshal(<<>>, [a EXCEPT !.RecentScores = NilSlice]) EXCEPT
                 !.recent_scores = [null |-> a.RecentScores = <<>>, elems |-> a.RecentScores]])

\* The weekly scores of a history, and its triggered bottom-fish calls since
\* the last reset.
RECURSIVE WeeklyScoresOf(_)
WeeklyScoresOf(h) ==
    IF h = <<>> THEN <<>>
    ELSE (IF Head(h).op = "weekly" THEN <<Head(h).arg>> ELSE <<>>) \o WeeklyScoresOf(Tail(h))

\* The state after NewManager on the file an earlier run with history h left
\* (a missing file for the empty history), no method called yet.
InitWith(n, budgets, histories) ==
    /\ \E b \in budgets : \E h \in histories :
         LET seed == Abs(<<>>, Seed(ZeroState, b))
             f0   == IF h = <<>> THEN FileMissing ELSE FileOf(RunHistory(h, seed))
             m    == NewManager(f0, b, 0)
         IN  /\ state = m.state /\ heap = m.heap /\ file = m.file
             /\ cfgBudget = b
             /\ weeklyLog = WeeklyScoresOf(h)
             /\ ledger = Opening(m.state)
             /\ fishSinceReset = IF m.state.BottomFishUsedThisWeek THEN 1 ELSE 0
    /\ clock = 1
    /\ mu = 0
    /\ pc = [t \in 1..n |-> "idle"]
    /\ frame = [t \in 1..n |-> IdleFrame(NoRet)]
    /\ task = [t \in 1..n |-> NoTask]
    /\ ctxDone = FALSE
    /\ launched = 0

Init == InitWith(NumThreads, Budgets, Histories)

Next ==
    \/ \E t \in 1..NumThreads : \E o \in OpNames : \E s \in OpScores(o) :
           clock <= MaxSaves /\ Call(t, o, s)
    \/ \E t \in 1..NumThreads : WeeklyAmounts(t)
    \/ \E t \in 1..NumThreads : WeeklyWithdraw(t)
    \/ \E t \in 1..NumThreads : WeeklyTrack(t)
    \/ \E t \in 1..NumThreads : FishCheck(t)
    \/ \E t \in 1..NumThreads : FishApply(t)
    \/ \E t \in 1..NumThreads : MonthlyRegular(t)
    \/ \E t \in 1..NumThreads : MonthlyReserve(t)
    \/ \E t \in 1..NumThreads : QuarterlyBranch(t)
    \/ \E t \in 1..NumThreads : ResetClear(t)
    \/ \E t \in 1..NumThreads : GetCopy(t)
    \/ \E t \in 1..NumThreads : SaveOk(t)
    \/ \E t \in 1..NumThreads : SaveFail(t)
    \/ \E t \in 1..NumThreads : Return(t)

Spec == Init /\ [][Next]_vars

----------------------------------------------------------------------------
(* SpecWindow: weekly investments past the window's length, with callers of *)
(* GetState that keep the copy they got, on a disk that does not fail.      *)

\* Scores above, at and below the streak threshold 1.0.
WindowScores == {130000, 100000, 50000}

\* An earlier run of WindowLen weekly investments, with alternating scores or
\* all above 1.0, or none.
WindowHistories ==
    { <<>>,
      [i \in 1..WindowLen |-> [op |-> "weekly", arg |-> IF i % 2 = 0 THEN 130000 ELSE 50000]],
      [i \in 1..WindowLen |-> [op |-> "weekly", arg |-> 130000]] }

InitWindow == InitWith(NumThreads, Budgets, WindowHistories)

NextWindow ==
    \/ \E t \in 1..NumThreads : \E s \in WindowScores :
           clock <= MaxWindowSaves /\ Call(t, "weekly", s)
    \/ \E t \in 1..NumThreads : clock <= MaxWindowSaves /\ Call(t, "get", 0)
    \/ \E t \in 1..NumThreads : WeeklyAmounts(t)
    \/ \E t \in 1..NumThreads : WeeklyWithdraw(t)
    \/ \E t \in 1..NumThreads : WeeklyTrack(t)
    \/ \E t \in 1..NumThreads : GetCopy(t)
    \/ \E t \in 1..NumThreads : SaveOk(t)
    \/ \E t \in 1..NumThreads : Return(t)
    \/ \E t \in 1..NumThreads : ReturnHold(t)

SpecWindow == InitWindow /\ [][NextWindow]_vars

----------------------------------------------------------------------------
(* SpecRestart: the process is stopped and started again on the state file. *)

\* Budgets the restarts are configured with.
RestartBudgets == {4330, 8660}

\* The process ends (a signal, a crash) between two steps of its goroutines.
Stop ==
    /\ Up
    /\ state' = Down
    /\ heap' = <<>>
    /\ mu' = 0
    /\ pc' = [t \in DOMAIN pc |-> "idle"]
    /\ frame' = [t \in DOMAIN frame |-> IdleFrame(NoRet)]
    /\ UNCHANGED <<task, ctxDone, launched, file, clock, cfgBudget, weeklyLog, ledger, fishSinceReset>>

\* main: NewManager(cfg.Fund.StateFile, cfg.Fund.MonthlyBudget) succeeds.
StartOk(b) ==
    /\ ~Up
    /\ LET m == NewManager(file, b, clock)
       IN  /\ m.ok
           /\ state' = m.state
           /\ heap' = m.heap
           /\ file' = m.file
           /\ weeklyLog' = Elems(m.heap, m.state.RecentScores)
           /\ ledger' = Opening(m.state)
           /\ fishSinceReset' = IF m.state.BottomFishUsedThisWeek THEN 1 ELSE 0
    /\ cfgBudget' = b
    /\ clock' = clock + 1
    /\ UNCHANGED <<task, ctxDone, launched, mu, pc, frame>>

\* NewManager fails in LoadState; main ends with log.Fatalf.
StartLoadError(b) ==
    /\ ~Up
    /\ ~NewManager(file, b, clock).ok
    /\ cfgBudget' = b
    /\ UNCHANGED <<task, ctxDone, launched, file, state, heap, mu, pc, frame, clock, weeklyLog, ledger, fishSinceReset>>

\* NewManager fails in its m.save(); main ends with log.Fatalf.
StartSaveError(b) ==
    /\ ~Up
    /\ NewManager(file, b, clock).ok
    /\ file' \in FailedWrite(file, NewManager(file, b, clock).file)
    /\ cfgBudget' = b
    /\ clock' = clock + 1
    /\ UNCHANGED <<task, ctxDone, launched, state, heap, mu, pc, frame, weeklyLog, ledger, fishSinceReset>>

\* No process yet, no state file.
InitDown ==
    /\ state = Down
    /\ heap = <<>>
    /\ file = FileMissing
    /\ clock = 0
    /\ cfgBudget = 0
    /\ mu = 0
    /\ pc = [t \in 1..NumThreads |-> "idle"]
    /\ frame = [t \in 1..NumThreads |-> IdleFrame(NoRet)]
    /\ weeklyLog = <<>>
    /\ fishSinceReset = 0
    /\ ledger = Opening(Down)
    /\ task = [t \in 1..NumThreads |-> NoTask]
    /\ ctxDone = FALSE
    /\ launched = 0

NextRestart ==
    \/ \E t \in 1..NumThreads : \E o \in OpNames : \E s \in OpScores(o) :
           clock < MaxRestartSaves /\ Call(t, o, s)
    \/ \E t \in 1..NumThreads : WeeklyAmounts(t)
    \/ \E t \in 1..NumThreads : WeeklyWithdraw(t)
    \/ \E t \in 1..NumThreads : WeeklyTrack(t)
    \/ \E t \in 1..NumThreads : FishCheck(t)
    \/ \E t \in 1..NumThreads : FishApply(t)
    \/ \E t \in 1..NumThreads : MonthlyRegular(t)
    \/ \E t \in 1..NumThreads : MonthlyReserve(t)
    \/ \E t \in 1..NumThreads : QuarterlyBranch(t)
    \/ \E t \in 1..NumThreads : ResetClear(t)
    \/ \E t \in 1..NumThreads : GetCopy(t)
    \/ \E t \in 1..NumThreads : SaveOk(t)
    \/ \E t \in 1..NumThreads : SaveFail(t)
    \/ \E t \in 1..NumThreads : Return(t)
    \/ Stop
    \/ \E b \in RestartBudgets : clock < MaxRestartSaves /\ StartOk(b)
    \/ \E b \in RestartBudgets : StartLoadError(b)
    \/ \E b \in RestartBudgets : clock < MaxRestartSaves /\ StartSaveError(b)

SpecRestart == InitDown /\ [][NextRestart]_vars

----------------------------------------------------------------------------
(* Properties *)

\* Goroutine t is at its method's return, inside the critical section still.
AtReturn(t) == pc[t] = "ret"

\* Goroutine t's call reached m.save().
Saved(t) == AtReturn(t) /\ Saves(frame[t].op, frame[t].pre.mem)

\* C1: in every reachable state, whatever the calls, their tiers, scores and
\* interleaving, RegularBalance >= 0 and ReserveBalance >= 0.
C1_BalancesNeverNegative ==
    Up => state.RegularBalance >= 0 /\ state.ReserveBalance >= 0

\* C1's case: a weekly withdrawal was capped to the balance and emptied the
\* regular pool.
C1_Witness ==
    \E t \in Threads :
        /\ pc[t] = "w_track"
        /\ frame[t].x > 0
        /\ frame[t].x < (state.WeeklyBaseN * Signal(frame[t].arg).Tier.Multiplier) \div 100
        /\ state.RegularBalance = 0

\* C2: between two resets of the weekly flag at most one bottom-fish call is
\* triggered, and a call that is not triggered returns 0 and leaves the
\* reserve pool alone.
C2_OneBottomFishPerWeek ==
    /\ fishSinceReset <= 1
    /\ \A t \in Threads :
         (AtReturn(t) /\ frame[t].op = "fish" /\ frame[t].y = 0) =>
            /\ RetValue(frame[t]) = [kind |-> "fish", amount |-> 0, triggered |-> FALSE]
            /\ state.ReserveBalance = frame[t].pre.mem.ReserveBalance

\* C2's case: a bottom-fish call is refused after one was triggered this week.
C2_Witness ==
    \E t \in Threads :
        AtReturn(t) /\ frame[t].op = "fish" /\ frame[t].y = 0 /\ fishSinceReset = 1

\* C3: at most one goroutine is inside a Manager method's critical section,
\* the mutex is held exactly then, and at its return the state is the one the
\* method produces when it runs alone on the state it found at its entry.
C3_Serialized ==
    /\ \A t, u \in Threads : (pc[t] \in InCS /\ pc[u] \in InCS) => t = u
    /\ \A t \in Threads : pc[t] \in InCS => mu = t
    /\ (mu # 0 => pc[mu] \in InCS)
    /\ \A t \in Threads :
         AtReturn(t) =>
            Abs(heap, state) =
                IF Saves(frame[t].op, frame[t].pre.mem)
                THEN Effect(frame[t].op, frame[t].arg, frame[t].pre.mem, clock - 1)
                ELSE frame[t].pre.mem

\* C3's case: a second goroutine's weekly investment returns after another
\* goroutine's method has changed the state.
C3_Witness ==
    \E t \in Threads :
        /\ t # 1
        /\ AtReturn(t)
        /\ frame[t].op = "weekly"
        /\ frame[t].pre.mem.UpdatedAt > 0
        /\ Abs(heap, state) # frame[t].pre.mem

\* C4: write-through.  When a mutating method is at its return and its
\* SaveState did not fail, the file is the serialisation of the in-memory
\* state, and loading it gives that state field for field.
C4_WriteThrough ==
    \A t \in Threads :
        (Saved(t) /\ ~frame[t].saveErr) =>
            /\ file = FileJSON(Marshal(heap, state))
            /\ LoadState(<<>>, file).ok
            /\ Abs(LoadState(<<>>, file).heap, LoadState(<<>>, file).state) = Abs(heap, state)

\* C4's case: a weekly investment that changed the balances is at its return,
\* its save done.
C4_Witness ==
    \E t \in Threads :
        /\ Saved(t) /\ ~frame[t].saveErr
        /\ frame[t].op = "weekly"
        /\ state.RegularBalance # frame[t].pre.mem.RegularBalance

\* C5 as stated: when SaveState fails the memory keeps the new values, the
\* file keeps the previously persisted values, and the method returns its
\* business result.
C5_FileKeepsPreviousValues ==
    \A t \in Threads :
        (Saved(t) /\ frame[t].saveErr) =>
            /\ Abs(heap, state) =
                   Effect(frame[t].op, frame[t].arg, frame[t].pre.mem, clock - 1)
            /\ file = frame[t].pre.file
            /\ RetValue(frame[t]) = Result(frame[t].op, frame[t].arg, frame[t].pre.mem)

\* C5, amended: when SaveState fails the memory keeps the new values (no
\* rollback), the method returns its business result, and the file is what
\* the failed os.WriteFile left: the previously persisted record, a record
\* cut short, or the new record.
C5_NoRollbackOnFailedSave ==
    \A t \in Threads :
        (Saved(t) /\ frame[t].saveErr) =>
            /\ Abs(heap, state) =
                   Effect(frame[t].op, frame[t].arg, frame[t].pre.mem, clock - 1)
            /\ file \in {frame[t].pre.file, FilePartial, FileJSON(Marshal(heap, state))}
            /\ RetValue(frame[t]) = Result(frame[t].op, frame[t].arg, frame[t].pre.mem)

\* C5's case: a triggered bottom-fish call whose save failed is at its return,
\* the reserve pool debited in memory.
C5_Witness ==
    \E t \in Threads :
        /\ Saved(t) /\ frame[t].saveErr
        /\ frame[t].op = "fish"
        /\ state.ReserveBalance < frame[t].pre.mem.ReserveBalance
        /\ RetValue(frame[t]).triggered

\* The file is not the record of the state goroutine t's method started from.
OutOfSync(t) == frame[t].pre.file # FileOf(frame[t].pre.mem)

\* C6: a mutating method that starts with the file out of sync (a save failed
\* before) and whose own save succeeds leaves the file equal to the whole
\* in-memory state, the earlier methods' changes included.
C6_NextSaveResyncs ==
    \A t \in Threads :
        (Saved(t) /\ ~frame[t].saveErr /\ OutOfSync(t)) =>
            /\ file = FileOf(Abs(heap, state))
            /\ Abs(heap, state) =
                   Effect(frame[t].op, frame[t].arg, frame[t].pre.mem, clock - 1)

\* C6's case: after a failed save that changed the window in memory only, a
\* method that does not touch the window has saved.
C6_Witness ==
    \E t \in Threads :
        /\ Saved(t) /\ ~frame[t].saveErr /\ OutOfSync(t)
        /\ frame[t].op \in {"monthly", "reset", "fish"}
        /\ frame[t].pre.file.kind = "json"
        /\ frame[t].pre.file.data.recent_scores.elems # frame[t].pre.mem.RecentScores

\* C7: MonthlyBudget and WeeklyBaseN are the values NewManager set, in every
\* reachable state: no method changes them.
C7_BudgetAndBaseFixed ==
    Up => /\ state.MonthlyBudget = cfgBudget
          /\ state.WeeklyBaseN = (cfgBudget * 70) \div 433

\* C7's case: a quarterly rebalance that moved an excess from the reserve to
\* the regular pool is at its return.
C7_Witness ==
    \E t \in Threads :
        /\ AtReturn(t)
        /\ frame[t].op = "quarterly"
        /\ frame[t].x = 1
        /\ state.RegularBalance > frame[t].pre.mem.RegularBalance

\* The last n entries of a sequence.
LastN(q, n) == SubSeq(q, Len(q) - n + 1, Len(q))

\* C8: after k weekly investments RecentScores holds min(k, 12) entries, the
\* scores of the most recent calls in call order.
C8_WindowIsLastTwelve ==
    Up => /\ state.RecentScores.len <= 12
          /\ state.RecentScores.len = Min(Len(weeklyLog), 12)
          /\ Elems(heap, state.RecentScores) = LastN(weeklyLog, Min(Len(weeklyLog), 12))

\* C8's case: weekly investments went on after the window was full, up to
\* the one that moves the window to a new backing array.
C8_Witness ==
    /\ Up
    /\ Len(weeklyLog) = WindowLen + 5
    /\ state.RecentScores.off = 1
    /\ Cap(heap, state.RecentScores) > WindowLen
    /\ weeklyLog[1] # weeklyLog[WindowLen + 1]

\* A start of the process: NewManager returns the Manager.
Started == ~Up /\ Up'

\* C9: NewManager on a missing file seeds N = budget * 0.70 / 4.33, regular =
\* budget * 0.70, reserve = budget * 0.30 and leaves the rest zero; on a file
\* that holds a state (MonthlyBudget # 0) it keeps every field as persisted,
\* whatever budget is configured.
C9_SeedOnceThenKeep ==
    [][Started =>
         IF file = FileMissing
         THEN Abs(heap', state') =
                [Abs(<<>>, ZeroState) EXCEPT
                    !.MonthlyBudget = cfgBudget',
                    !.WeeklyBaseN = (cfgBudget' * 70) \div 433,
                    !.RegularBalance = (cfgBudget' * 70) \div 100,
                    !.ReserveBalance = (cfgBudget' * 30) \div 100,
                    !.UpdatedAt = clock]
         ELSE /\ file.kind = "json"
              /\ file.data.monthly_budget # 0
              /\ [Marshal(heap', state') EXCEPT !.updated_at = 0] =
                 [file.data EXCEPT !.updated_at = 0]]_vars

\* C9's case: the process runs on a persisted state that an earlier run
\* changed, under another configured budget than the one it was seeded with.
C9_Witness ==
    /\ Up
    /\ cfgBudget # state.MonthlyBudget
    /\ state.RegularBalance # (state.MonthlyBudget * 70) \div 100
    /\ \A t \in Threads : pc[t] = "idle"
    /\ state.UpdatedAt = clock - 1

\* C10: the copy GetState returns is the state as it stood with no other
\* method inside its critical section, and the RecentScores a caller reads
\* from a copy it keeps are the ones it read at first, whatever the Manager
\* does afterwards.
C10_SnapshotIsolated ==
    \A t \in Threads :
        /\ (AtReturn(t) /\ frame[t].op = "get") =>
              /\ frame[t].ret = Snapshot(state)
              /\ Abs(heap, frame[t].ret.value) = frame[t].pre.mem
              /\ \A u \in Threads \ {t} : pc[u] \notin InCS
        /\ frame[t].ret.kind = "held" =>
              Elems(heap, frame[t].ret.RecentScores) = frame[t].ret.seen

\* C10's case: a caller keeps a copy with a full window while the Manager has
\* appended to the same backing array and moved its window on.
C10_Witness ==
    \E t \in Threads :
        /\ frame[t].ret.kind = "held"
        /\ frame[t].ret.RecentScores.len = WindowLen
        /\ Up
        /\ state.RecentScores.arr = frame[t].ret.RecentScores.arr
        /\ state.RecentScores.off > frame[t].ret.RecentScores.off

----------------------------------------------------------------------------
(* SpecSched: the scheduler's triggers run as goroutines over one Manager,  *)
(* with a market feed that can fail, a notifier that can fail, and the      *)
(* shutdown's cancellation; the disk does not fail.                         *)

FetchErr == [err |-> TRUE]

\* What the fetches of one Collect return.
Feed(daily, weekly, price) == [daily |-> daily, weekly |-> weekly, price |-> price]

DailyBars(n, ma200, rsi, high52, low52, high30, low30) ==
    [err |-> FALSE, n |-> n, ma200 |-> ma200, rsi |-> rsi, high52 |-> high52,
     low52 |-> low52, high30 |-> high30, low30 |-> low30]

WeeklyBars(n, ma20, ma50, rsi) ==
    [err |-> FALSE, n |-> n, ma20 |-> ma20, ma50 |-> ma50, rsi |-> rsi]

Price(v) == [err |-> FALSE, v |-> v]

\* A quiet market, an oversold one (daily RSI under 30), an overbought one
\* (RSI over 85), and fetches that return no bars.
GoodFeeds ==
    { Feed(DailyBars(300, 5700, 50, 6000, 5000, 5900, 5600), WeeklyBars(60, 5750, 5600, 50), Price(5800)),
      Feed(DailyBars(300, 6000, 25, 6500, 4900, 5600, 4990), WeeklyBars(60, 5500, 5800, 28), Price(5000)),
      Feed(DailyBars(300, 5000, 88, 6010, 4000, 6010, 5500), WeeklyBars(60, 5600, 5200, 90), Price(6000)),
      Feed(DailyBars(0, 0, 0, 0, 0, 0, 0), WeeklyBars(0, 0, 0, 0), Price(5800)) }

\* A fetch of the three fails.
BadFeeds ==
    { Feed(FetchErr, WeeklyBars(60, 5750, 5600, 50), Price(5800)),
      Feed(DailyBars(300, 5700, 50, 6000, 5000, 5900, 5600), FetchErr, Price(5800)),
      Feed(DailyBars(300, 5700, 50, 6000, 5000, 5900, 5600), WeeklyBars(60, 5750, 5600, 50), FetchErr) }

Feeds == GoodFeeds \cup BadFeeds

InitSched == InitWith(NumThreads, Budgets, {<<>>})

NextSched ==
    \/ \E t \in 1..NumThreads : \E k \in Triggers : Launch(t, k)
    \/ \E t \in 1..NumThreads : \E feed \in Feeds : TaskCollect(t, feed)
    \/ \E t \in 1..NumThreads : TaskEvaluate(t)
    \/ \E t \in 1..NumThreads : TaskCall(t)
    \/ \E t \in 1..NumThreads : WeeklyAmounts(t)
    \/ \E t \in 1..NumThreads : WeeklyWithdraw(t)
    \/ \E t \in 1..NumThreads : WeeklyTrack(t)
    \/ \E t \in 1..NumThreads : FishCheck(t)
    \/ \E t \in 1..NumThreads : FishApply(t)
    \/ \E t \in 1..NumThreads : MonthlyRegular(t)
    \/ \E t \in 1..NumThreads : MonthlyReserve(t)
    \/ \E t \in 1..NumThreads : QuarterlyBranch(t)
    \/ \E t \in 1..NumThreads : ResetClear(t)
    \/ \E t \in 1..NumThreads : GetCopy(t)
    \/ \E t \in 1..NumThreads : SaveOk(t)
    \/ \E t \in 1..NumThreads : TaskReturn(t)
    \/ \E t \in 1..NumThreads : SendWithRetry(t, TrySendRetries)
    \/ \E t \in 1..NumThreads : SendOk(t)
    \/ \E t \in 1..NumThreads : SendFail(t)
    \/ \E t \in 1..NumThreads : BackoffElapsed(t)
    \/ \E t \in 1..NumThreads : SendCancelled(t)
    \/ \E t \in 1..NumThreads : SendExhausted(t)
    \/ \E t \in 1..NumThreads : TrySendReturn(t)
    \/ \E t \in 1..NumThreads : TaskReply(t)
    \/ \E t \in 1..NumThreads : TaskRecord(t)
    \/ \E t \in 1..NumThreads : TaskDone(t)
    \/ Cancel

SpecSched == InitSched /\ [][NextSched]_vars

----------------------------------------------------------------------------
(* Properties of the scheduler's tasks *)

\* The goroutine of t is inside a network call or on its way into one: the
\* collector's fetches, the notifier's retry loop, the reply of a command.
NetworkCall(t) == At(t, "collect") \/ At(t, "send") \/ At(t, "reply")

\* C11: no goroutine is in a network call (Collect, SendWithRetry, Send) while
\* it holds the fund lock: at such a call it is outside every Manager method
\* and the mutex is not its own.
C11_NoNetworkUnderLock ==
    \A t \in Threads : NetworkCall(t) => pc[t] = "idle" /\ mu # t

\* A task that has changed the fund is in a send attempt while the other
\* goroutine holds the lock.
C11_Witness ==
    \E t, u \in Threads :
        /\ t # u
        /\ Sending(t, "attempt")
        /\ task[t].calls > 0
        /\ mu = u

----------------------------------------------------------------------------
(* SpecSchedFair: the triggers over one Manager with the scheduling the      *)
(* runtime gives.  A goroutine inside a Manager method keeps running (the Go *)
(* scheduler is preemptive and the disk write returns), and sync.Mutex hands *)
(* the lock to a goroutine that keeps waiting for it (starvation mode).      *)
(* Nothing is assumed of the triggers or of the network calls, which may     *)
(* take forever; the notifier's failures and the shutdown, which touch       *)
(* neither the lock nor the fund, are left to SpecSched.                     *)

\* A step of the goroutine of t inside a Manager method, the return included.
ManagerStep(t) ==
    \/ WeeklyAmounts(t) \/ WeeklyWithdraw(t) \/ WeeklyTrack(t)
    \/ FishCheck(t) \/ FishApply(t)
    \/ MonthlyRegular(t) \/ MonthlyReserve(t)
    \/ QuarterlyBranch(t) \/ ResetClear(t) \/ GetCopy(t) \/ SaveOk(t)
    \/ TaskReturn(t)

NextSchedFair ==
    \/ \E t \in 1..NumThreads : \E k \in Triggers : Launch(t, k)
    \/ \E t \in 1..NumThreads : \E feed \in Feeds : TaskCollect(t, feed)
    \/ \E t \in 1..NumThreads : TaskEvaluate(t)
    \/ \E t \in 1..NumThreads : TaskCall(t)
    \/ \E t \in 1..NumThreads : WeeklyAmounts(t)
    \/ \E t \in 1..NumThreads : WeeklyWithdraw(t)
    \/ \E t \in 1..NumThreads : WeeklyTrack(t)
    \/ \E t \in 1..NumThreads : FishCheck(t)
    \/ \E t \in 1..NumThreads : FishApply(t)
    \/ \E t \in 1..NumThreads : MonthlyRegular(t)
    \/ \E t \in 1..NumThreads : MonthlyReserve(t)
    \/ \E t \in 1..NumThreads : QuarterlyBranch(t)
    \/ \E t \in 1..NumThreads : ResetClear(t)
    \/ \E t \in 1..NumThreads : GetCopy(t)
    \/ \E t \in 1..NumThreads : SaveOk(t)
    \/ \E t \in 1..NumThreads : TaskReturn(t)
    \/ \E t \in 1..NumThreads : SendWithRetry(t, TrySendRetries)
    \/ \E t \in 1..NumThreads : SendOk(t)
    \/ \E t \in 1..NumThreads : TrySendReturn(t)
    \/ \E t \in 1..NumThreads : TaskReply(t)
    \/ \E t \in 1..NumThreads : TaskRecord(t)
    \/ \E t \in 1..NumThreads : TaskDone(t)

SpecSchedFair ==
    /\ InitSched
    /\ [][NextSchedFair]_vars
    /\ \A t \in 1..NumThreads : WF_vars(ManagerStep(t)) /\ SF_vars(TaskCall(t))

\* The goroutine of t has invoked a Manager method and waits for the lock.
Waiting(t) ==
    /\ Running(t)
    /\ task[t].todo # <<>>
    /\ Head(task[t].todo) \in OpNames
    /\ pc[t] = "idle"

\* C12: under fair scheduling every invoked Manager operation gets the lock,
\* and every holder of the lock completes and releases it: no trigger
\* interleaving leaves a goroutine waiting or the lock held forever.
C12_EveryCallCompletes ==
    \A t \in 1..NumThreads :
        /\ Waiting(t) ~> (mu = t)
        /\ (mu = t) ~> (mu # t /\ pc[t] = "idle")

\* A goroutine waits for the lock while the other is inside a mutating method.
C12_Witness ==
    \E t, u \in Threads :
        /\ t # u
        /\ Waiting(t)
        /\ mu = u
        /\ frame[u].op # "get"

----------------------------------------------------------------------------
(* The weekly cycle *)

TierLabels == {Tiers[i].Tier.Label : i \in 1..Len(Tiers)} \cup {DefaultTier.Label}

\* C13: in a weekly cycle CalculateWeeklyInvestment is invoked only after
\* Collect has succeeded and Evaluate has returned the complete signal of the
\* collected indicators: five factors, their total and its tier; the call is
\* made with that signal.
C13_WeeklyAfterCollectAndEvaluate ==
    \A t \in Threads :
        At(t, "weekly") =>
            /\ ~task[t].collectErr
            /\ task[t].ind # NoInd
            /\ task[t].signal # NoSignal
            /\ task[t].signal = Evaluate(task[t].ind)
            /\ Len(task[t].signal.Factors) = 5
            /\ task[t].signal.Tier.Label \in TierLabels
            /\ pc[t] # "idle" => frame[t].op = "weekly"
                                 /\ frame[t].arg = task[t].signal.TotalScore

\* A weekly cycle is inside CalculateWeeklyInvestment with a signal that uses
\* the reserve.
C13_Witness ==
    \E t \in Threads :
        /\ At(t, "weekly")
        /\ pc[t] = "w_withdraw"
        /\ task[t].signal.Tier.UseReserve > 0

----------------------------------------------------------------------------
(* Upstream failures *)

\* One of the three fetches of a Collect has failed.
FetchFailed(feed) == feed.daily.err \/ feed.weekly.err \/ feed.price.err

\* C14: Collect returns an error exactly when one of its three fetches fails,
\* so never for a failed indicator calculation alone; after the error the
\* weekly task and the daily check call no Manager method: the weekly task
\* has only its failure notice left, the daily check nothing.
C14_FetchFailureAbandonsCycle ==
    /\ [](\A t \in Threads :
            Running(t) /\ task[t].collectErr =>
                /\ task[t].calls = 0
                /\ pc[t] = "idle"
                /\ mu # t
                /\ task[t].ind = NoInd
                /\ task[t].todo = <<>>
                   \/ (task[t].kind # "daily" /\ task[t].todo = <<"send">>))
    /\ [][\A t \in Threads : \A feed \in Feeds :
            TaskCollect(t, feed) =>
                /\ task'[t].collectErr <=> FetchFailed(feed)
                /\ ~FetchFailed(feed) => task'[t].ind # NoInd]_vars

\* A weekly cycle has ended after a failed fetch, and another cycle goes on
\* with the defaults of calculations that failed on a feed without bars.
C14_Witness ==
    \E t, u \in Threads :
        /\ task[t].kind = "weekly"
        /\ task[t].collectErr
        /\ task[t].todo = <<>>
        /\ Running(u)
        /\ task[u].ind # NoInd
        /\ task[u].ind.High52w = task[u].ind.Low52w
        /\ task[u].ind.MA200 = task[u].ind.CurrentPrice
        /\ task[u].ind.MA50w = task[u].ind.CurrentPrice

----------------------------------------------------------------------------
(* The notifier's retry loop *)

\* The Manager methods that change the fund.
Mutating == OpNames \ {"get"}

\* C15: SendWithRetry makes at most maxRetries+1 attempts; after the k-th
\* failed attempt it waits 2^(k-1) seconds (1, 2, 4, ...); a successful
\* attempt returns nil at once, all attempts before it having failed; once
\* maxRetries+1 attempts have failed the result is an error.  No step of the
\* loop changes the fund in memory or on disk, and the task calls no mutating
\* Manager method after a send, failed or not.
C15_BoundedRetryKeepsFund ==
    /\ [](\A t \in Threads :
            At(t, "send") /\ task[t].send # NoSend =>
                LET sd == task[t].send IN
                /\ sd.attempts <= sd.maxRetries + 1
                /\ \A k \in DOMAIN sd.waits : sd.waits[k] = 2 ^ (k - 1)
                /\ Len(sd.waits) \in {sd.attempts - 1, sd.attempts}
                /\ sd.out = "ok" => sd.attempts = Len(sd.waits) + 1
                /\ sd.out = "exhausted" => /\ sd.attempts = sd.maxRetries + 1
                                           /\ Len(sd.waits) = sd.maxRetries + 1
                /\ Len(sd.waits) = sd.maxRetries + 1 => sd.at \in {"wait", "exhausted", "return"}
                /\ sd.at = "return" /\ Len(sd.waits) = sd.maxRetries + 1
                       => sd.out \in {"exhausted", "ctx"}
                /\ \A k \in DOMAIN task[t].todo : task[t].todo[k] \notin Mutating)
    /\ [][\A t \in Threads :
            /\ SendOk(t) => task'[t].send.at = "return" /\ task'[t].send.out = "ok"
            /\ Running(t) /\ task'[t].kind \in Triggers /\ task'[t].send # task[t].send
                   => state' = state /\ file' = file]_vars

\* A task that has changed the fund has its notice fail in all four attempts,
\* after waits of 1, 2, 4 and 8 seconds, with the change in memory and on disk.
C15_Witness ==
    \E t \in Threads :
        /\ Sending(t, "return")
        /\ task[t].send.out = "exhausted"
        /\ task[t].send.waits = <<1, 2, 4, 8>>
        /\ task[t].kind = "weekly"
        /\ task[t].calls > 0
        /\ state.RecentScores.len > 0
        /\ file = FileJSON(Marshal(heap, state))

----------------------------------------------------------------------------
(* Cancellation *)

\* C16 as stated: whenever the cancellation is raised while SendWithRetry is
\* in its loop, in an attempt or in a backoff wait, SendWithRetry returns the
\* cancellation error, with no attempt begun after the cancellation and the
\* message not delivered.
C16_CancelInLoopAborts ==
    \A t \in Threads :
        Sending(t, "return") /\ task[t].send.cancelSeen \in {"attempt", "wait"} =>
            /\ task[t].send.out = "ctx"
            /\ task[t].send.attempts
                   <= task[t].send.attemptsThen
                      + (IF task[t].send.cancelSeen = "attempt" THEN 1 ELSE 0)

\* C16, amended: a cancellation raised while SendWithRetry waits for a backoff
\* makes it return the cancellation error with no further attempt and no
\* delivery; a cancellation raised during an attempt does not interrupt it:
\* the attempt ends, delivered (nil) or failed (then the cancellation error),
\* and no other attempt follows.  Neither the cancellation nor the cancelled
\* return changes the fund in memory or on disk, and the task calls no
\* mutating method afterwards.
C16_CancelInBackoffAborts ==
    /\ [](\A t \in Threads :
            Sending(t, "return") =>
                /\ task[t].send.cancelSeen = "wait" =>
                       /\ task[t].send.out = "ctx"
                       /\ task[t].send.attempts = task[t].send.attemptsThen
                /\ task[t].send.cancelSeen = "attempt" =>
                       /\ task[t].send.out \in {"ok", "ctx"}
                       /\ task[t].send.attempts = task[t].send.attemptsThen + 1
                /\ task[t].send.out = "ctx" =>
                       /\ ctxDone
                       /\ \A k \in DOMAIN task[t].todo : task[t].todo[k] \notin Mutating)
    /\ [][(ctxDone' # ctxDone \/ \E t \in Threads : SendCancelled(t))
               => state' = state /\ file' = file]_vars

\* A weekly cycle that has changed the fund was cancelled in its second
\* backoff wait and returns the cancellation error after two attempts.
C16_Witness ==
    \E t \in Threads :
        /\ Sending(t, "return")
        /\ task[t].kind = "weekly"
        /\ task[t].calls > 0
        /\ task[t].send.cancelSeen = "wait"
        /\ task[t].send.out = "ctx"
        /\ task[t].send.attempts = 2
        /\ state.RecentScores.len > 0
        /\ file = FileJSON(Marshal(heap, state))

----------------------------------------------------------------------------
(* SpecEval: the strategy's pure functions on drawn inputs.  A goroutine    *)
(* either runs a weekly cycle up to its Evaluate on a feed of EvalFeeds, or *)
(* calls CalculateWeeklyInvestment with a signal whose total is one of      *)
(* TierProbes, up to the amounts of the signal's tier.                      *)

\* Totals on each threshold of Tiers, just below each, and far out.
TierProbes ==
    {200000, 150000, 149999, 120000, 119999, 80000, 79999, 0, -1,
     -80000, -80001, -150000, -150001, -200000}

\* Feeds with the price at 1000: 200-day averages of 0 (none) and at
\* deviations of +28%, 0%, -5.7% and -23%; RSI values oversold, neutral and
\* on both sides of the warning level 85; 52-week <<high, low>> that put the
\* price at 5%, 50%, 95% and 96%; <<MA20w, MA50w, 30-day high, 30-day low>>
\* bullish at the 30-day high, bullish, bearish at the 30-day low, bearish,
\* without a trend, and above a 20-week average that is below the 50-week one
\* with both 30-day extremes close.  Feeds with the 200-day average at 1000
\* and the price on every bound of the deviation ladder and just above it.
EvalFeeds ==
    { Feed(DailyBars(300, ma, dr, r[1], r[2], tr[3], tr[4]),
           WeeklyBars(60, tr[1], tr[2], wr), Price(1000)) :
        ma \in {0, 780, 1000, 1060, 1300},
        dr \in {20, 50, 85, 86},
        wr \in {20, 50, 85, 86},
        r  \in {<<1950, 950>>, <<2000, 0>>, <<1040, 240>>, <<1040, 40>>},
        tr \in {<<950, 900, 1005, 960>>, <<950, 900, 1040, 960>>, <<1050, 1100, 1040, 995>>,
                <<1050, 1100, 1040, 960>>, <<1000, 1000, 1040, 960>>, <<950, 1100, 1005, 995>>} }
    \cup { Feed(DailyBars(300, 1000, 50, 2000, 0, 1300, 700), WeeklyBars(60, 1000, 1000, 50),
                 Price(price)) :
              price \in {790, 800, 801, 900, 901, 950, 951, 1000, 1001, 1050, 1051, 1100, 1101,
                         1150, 1151, 1200, 1201} }
    \cup GoodFeeds

NextEval ==
    \/ Launch(1, "weekly")
    \/ \E feed \in EvalFeeds : TaskCollect(1, feed)
    \/ TaskEvaluate(1)
    \/ \E s \in TierProbes : task[1] = NoTask /\ Call(1, "weekly", s)
    \/ WeeklyAmounts(1)

SpecEval == InitSched /\ [][NextEval]_vars

\* The goroutine of t has the signal of its indicators.
Evaluated(t) == Running(t) /\ task[t].signal # NoSignal

\* C17: mapTier gives every score one tier; the thresholds 1.5, 1.2, 0.8, 0.0,
\* -0.8, -1.5 decrease strictly down the table; a score maps to the tier of
\* the highest threshold it reaches, so each threshold opens its own tier and
\* a score just below it falls to the next lower tier; below -1.5 the tier
\* is 'minimum'.  Checked on the tier a weekly call pays by and on the tier
\* of every evaluated signal.
C17_MapTierByThresholds ==
    LET TierIs(score, tier) ==
            /\ tier \in {Tiers[i].Tier : i \in 1..Len(Tiers)} \cup {DefaultTier}
            /\ (score >= 150000) = (tier.Label = "extreme-heavy")
            /\ (score >= 120000 /\ score < 150000) = (tier.Label = "heavy")
            /\ (score >= 80000 /\ score < 120000) = (tier.Label = "add")
            /\ (score >= 0 /\ score < 80000) = (tier.Label = "normal")
            /\ (score >= -80000 /\ score < 0) = (tier.Label = "reduced")
            /\ (score >= -150000 /\ score < -80000) = (tier.Label = "light/watch")
            /\ (score < -150000) = (tier.Label = "minimum")
    IN  /\ [i \in 1..Len(Tiers) |-> Tiers[i].MinScore]
              = <<150000, 120000, 80000, 0, -80000, -150000>>
        /\ \A i, j \in 1..Len(Tiers) : i < j => Tiers[i].MinScore > Tiers[j].MinScore
        /\ \A t \in Threads :
              /\ Evaluated(t) => TierIs(task[t].signal.TotalScore, task[t].signal.Tier)
              /\ pc[t] = "w_withdraw" =>
                    \E tier \in {Tiers[i].Tier : i \in 1..Len(Tiers)} \cup {DefaultTier} :
                        /\ TierIs(frame[t].arg, tier)
                        /\ frame[t].x = RegularAmount(state, tier)
                        /\ frame[t].y = ReserveAmount(state, tier)

\* A weekly call with a total just below 1.5 pays as 'heavy': the whole base
\* amount from each pool, not the one and a half of 'extreme-heavy'.
C17_Witness ==
    \E t \in Threads :
        /\ pc[t] = "w_withdraw"
        /\ frame[t].arg = 149999
        /\ frame[t].x = state.WeeklyBaseN
        /\ frame[t].y = state.WeeklyBaseN

\* C18: the 52-week-position factor is computed from the mean of the raw
\* scores of the other four (MA200, weekly RSI, daily RSI, trend): for a
\* position above 95% its raw score is -2.0 when the mean is below -1.0 and
\* -1.0 when the mean is -1.0 or more.
C18_PositionFromMeanOfOthers ==
    \A t \in Threads :
        Evaluated(t) /\ task[t].ind.Position52w.n * 100 > 95 * task[t].ind.Position52w.d =>
            LET F == task[t].signal.Factors
                others == F[1].RawScore + F[2].RawScore + F[3].RawScore + F[5].RawScore
            IN  /\ F[4].Name = "Position52w"
                /\ others < -4 * One => F[4].RawScore = -2 * One
                /\ others >= -4 * One => F[4].RawScore = -One

\* A price at 96% of its range with the other four raw scores -2, -2, 0, 0:
\* their mean is -1.0 and the position scores -1.0.
C18_Witness ==
    \E t \in Threads :
        /\ Evaluated(t)
        /\ task[t].ind.Position52w = [n |-> 960, d |-> 1000]
        /\ task[t].signal.Factors[1].RawScore = -2 * One
        /\ task[t].signal.Factors[2].RawScore = -2 * One
        /\ task[t].signal.Factors[3].RawScore = 0
        /\ task[t].signal.Factors[5].RawScore = 0
        /\ task[t].signal.Factors[4].RawScore = -One

\* C19: Evaluate returns five factors, in the order MA200, weekly RSI, daily
\* RSI, 52-week position, trend, with the weights 0.35, 0.25, 0.15, 0.10,
\* 0.15, which sum to 1.0; each Weighted is RawScore times the weight, the
\* total is the sum of the five Weighted, the tier is mapTier of the total,
\* and evaluating the same indicators again gives the same signal.
C19_SignalIsWeightedSum ==
    \A t \in Threads :
        Evaluated(t) =>
            LET sg == task[t].signal
                F  == sg.Factors
            IN  /\ Len(F) = 5
                /\ [i \in 1..5 |-> F[i].Name]
                      = <<"MA200", "WeeklyRSI", "DailyRSI", "Position52w", "Trend">>
                /\ [i \in 1..5 |-> F[i].Weight] = <<35, 25, 15, 10, 15>>
                /\ F[1].Weight + F[2].Weight + F[3].Weight + F[4].Weight + F[5].Weight = 100
                /\ \A i \in 1..5 : F[i].Weighted * 100 = F[i].RawScore * F[i].Weight
                /\ sg.TotalScore = F[1].Weighted + F[2].Weighted + F[3].Weighted
                                     + F[4].Weighted + F[5].Weighted
                /\ sg.Tier = mapTier(sg.TotalScore)
                /\ sg = Evaluate(task[t].ind)

\* An oversold market in a downtrend at its 30-day low: raw scores 2, 2, 2, 2
\* and -1 give the total 1.55 and the tier 'extreme-heavy'.
C19_Witness ==
    \E t \in Threads :
        /\ Evaluated(t)
        /\ [i \in 1..5 |-> task[t].signal.Factors[i].RawScore]
              = <<2 * One, 2 * One, 2 * One, 2 * One, -One>>
        /\ task[t].signal.TotalScore = 155000
        /\ task[t].signal.Tier.Label = "extreme-heavy"

\* C20: the signal carries a take-profit warning exactly when the weekly or
\* the daily RSI is above 85; the warning changes nothing else: factors,
\* total and tier are those of the same indicators with the RSI at 85, which
\* get no warning.
C20_WarningOnlyAbove85 ==
    \A t \in Threads :
        Evaluated(t) =>
            LET ind  == task[t].ind
                sg   == task[t].signal
                calm == Evaluate([ind EXCEPT !.WeeklyRSI = Min(@, 85), !.DailyRSI = Min(@, 85)])
            IN  /\ (sg.WarningMsg # "") = (ind.WeeklyRSI > 85 \/ ind.DailyRSI > 85)
                /\ calm.WarningMsg = ""
                /\ sg.Factors = calm.Factors
                /\ sg.TotalScore = calm.TotalScore
                /\ sg.Tier = calm.Tier

\* A weekly RSI of 86 with a daily RSI of 85: warned, on the weekly RSI alone.
C20_Witness ==
    \E t \in Threads :
        /\ Evaluated(t)
        /\ task[t].ind.WeeklyRSI = 86
        /\ task[t].ind.DailyRSI = 85
        /\ task[t].signal.WarningMsg # ""

\* C21: for the price 5800 with MA200 5700, MA20w 5750, MA50w 5600, both RSI
\* at 50, the 52-week position 0.8 and the price not within 1% of the 30-day
\* high or low, Evaluate returns five factors and no warning, the raw scores
\* MA200 0, weekly RSI 0, daily RSI 0, position -1.0, trend +1.0, the total
\* 0.05 and the tier 'normal'.
C21_NormalMarketScenario ==
    \A t \in Threads :
        (/\ Evaluated(t)
         /\ task[t].ind.CurrentPrice = 5800
         /\ task[t].ind.MA200 = 5700
         /\ task[t].ind.MA20w = 5750
         /\ task[t].ind.MA50w = 5600
         /\ task[t].ind.WeeklyRSI = 50
         /\ task[t].ind.DailyRSI = 50
         /\ task[t].ind.Position52w.n * 10 = 8 * task[t].ind.Position52w.d
         /\ AbsVal(5800 - task[t].ind.High30d) * 100 >= task[t].ind.High30d
         /\ AbsVal(5800 - task[t].ind.Low30d) * 100 >= task[t].ind.Low30d)
        => LET sg == task[t].signal IN
           /\ Len(sg.Factors) = 5
           /\ sg.WarningMsg = ""
           /\ [i \in 1..5 |-> sg.Factors[i].RawScore] = <<0, 0, 0, -One, One>>
           /\ sg.TotalScore = 5000
           /\ sg.Tier.Label = "normal"

\* The scenario's indicators, collected from a feed with a 52-week range of
\* 5000 to 6000 and a 30-day range of 5600 to 5900, have been evaluated.
C21_Witness ==
    \E t \in Threads :
        /\ Evaluated(t)
        /\ task[t].ind.CurrentPrice = 5800
        /\ task[t].ind.MA200 = 5700
        /\ task[t].ind.MA20w = 5750
        /\ task[t].ind.MA50w = 5600
        /\ task[t].ind.WeeklyRSI = 50
        /\ task[t].ind.DailyRSI = 50
        /\ task[t].ind.Position52w = [n |-> 800, d |-> 1000]
        /\ task[t].ind.High30d = 5900
        /\ task[t].ind.Low30d = 5600
        /\ task[t].signal.TotalScore = 5000

----------------------------------------------------------------------------
(* The Manager's methods, one by one *)

\* C22: SaveState of any state the Manager holds, followed by LoadState of
\* the file, gives the saved state back: every field but UpdatedAt as it was
\* before the save, a nil RecentScores still nil, and UpdatedAt the save's
\* timestamp.
C22_SaveLoadRoundTrip ==
    Up =>
        LET l == LoadState(<<>>, Persist(heap, Stamp(state, clock)))
        IN  /\ l.ok
            /\ [Abs(l.heap, l.state) EXCEPT !.UpdatedAt = state.UpdatedAt] = Abs(heap, state)
            /\ (l.state.RecentScores.arr = 0) = (state.RecentScores.arr = 0)
            /\ l.state.UpdatedAt = clock

\* A state with a streak, scores in the window and the bottom-fish flag set.
C22_Witness ==
    /\ Up
    /\ state.ConsecutiveHighScoreWeeks >= 4
    /\ state.RecentScores.len >= 4
    /\ state.BottomFishUsedThisWeek

\* C23: a weekly investment called with balances R and V and a tier takes
\* min(N * Multiplier, R) out of the regular pool and min(N * UseReserve, V)
\* out of the reserve pool, each balance losing its own amount; it returns
\* the sum of the two as finalAmount and the second as reserveUsed, and the
\* bottom-fish flag is as it was.
C23_WeeklyWithdrawsFromBothPools ==
    \A t \in Threads :
        (AtReturn(t) /\ frame[t].op = "weekly") =>
            LET a       == frame[t].pre.mem
                tier    == mapTier(frame[t].arg)
                wantReg == (a.WeeklyBaseN * tier.Multiplier) \div 100
                wantRes == (a.WeeklyBaseN * tier.UseReserve) \div 100
                regular == IF wantReg < a.RegularBalance THEN wantReg ELSE a.RegularBalance
                reserve == IF wantRes < a.ReserveBalance THEN wantRes ELSE a.ReserveBalance
            IN  /\ state.RegularBalance = a.RegularBalance - regular
                /\ state.ReserveBalance = a.ReserveBalance - reserve
                /\ RetValue(frame[t]).finalAmount = regular + reserve
                /\ RetValue(frame[t]).reserveUsed = reserve
                /\ state.BottomFishUsedThisWeek = a.BottomFishUsedThisWeek

\* A weekly investment in a reserve-drawing tier whose reserve amount was
\* capped by the balance, called with the bottom-fish flag set.
C23_Witness ==
    \E t \in Threads :
        /\ AtReturn(t)
        /\ frame[t].op = "weekly"
        /\ frame[t].x > 0
        /\ frame[t].y > 0
        /\ frame[t].y < (frame[t].pre.mem.WeeklyBaseN * mapTier(frame[t].arg).UseReserve) \div 100
        /\ frame[t].pre.mem.BottomFishUsedThisWeek

\* C24: a weekly investment whose score is above 1.0 adds one to
\* ConsecutiveHighScoreWeeks, every other weekly investment (a score of 1.0
\* too) sets it to 0, and no step of any method but that one changes it.
C24_StreakCountsWeeksAboveOne ==
    /\ [](\A t \in Threads :
            AtReturn(t) =>
                state.ConsecutiveHighScoreWeeks =
                    IF frame[t].op # "weekly" THEN frame[t].pre.mem.ConsecutiveHighScoreWeeks
                    ELSE IF frame[t].arg > One THEN frame[t].pre.mem.ConsecutiveHighScoreWeeks + 1
                    ELSE 0)
    /\ [][(Up /\ Up' /\ state'.ConsecutiveHighScoreWeeks # state.ConsecutiveHighScoreWeeks)
            => \E t \in Threads : frame[t].op = "weekly" /\ pc[t] = "w_track" /\ pc'[t] = "save"]_vars

\* A weekly investment with a score of exactly 1.0 ends a streak of four.
C24_Witness ==
    \E t \in Threads :
        /\ AtReturn(t)
        /\ frame[t].op = "weekly"
        /\ frame[t].arg = One
        /\ frame[t].pre.mem.ConsecutiveHighScoreWeeks >= 4
        /\ state.ConsecutiveHighScoreWeeks = 0

\* C25: a bottom-fish call that finds the flag set returns (0, false), and at
\* its return every field of the state, UpdatedAt included, and the file are
\* what they were at its entry.
C25_RefusedBottomFishChangesNothing ==
    \A t \in Threads :
        (AtReturn(t) /\ frame[t].op = "fish" /\ frame[t].pre.mem.BottomFishUsedThisWeek) =>
            /\ RetValue(frame[t]).amount = 0
            /\ ~RetValue(frame[t]).triggered
            /\ Abs(heap, state) = frame[t].pre.mem
            /\ file = frame[t].pre.file
            /\ ~frame[t].saveErr

\* A refused bottom-fish call with a reserve it could have drawn on, after a
\* method of this run has written the file.
C25_Witness ==
    \E t \in Threads :
        /\ AtReturn(t)
        /\ frame[t].op = "fish"
        /\ frame[t].pre.mem.BottomFishUsedThisWeek
        /\ state.ReserveBalance > 0
        /\ state.UpdatedAt > 0
        /\ file.kind = "json"

\* C26: a bottom-fish call that finds the flag clear returns triggered = true
\* and sets the flag whatever the reserve, an empty one included; the amount
\* it returns and takes out of the reserve pool is min(m * N, ReserveBalance)
\* with m = 1.5 above 1.0, 1.0 in (0, 1.0], 0.75 in [-0.5, 0] and 0.5 below
\* -0.5; RegularBalance, the streak and RecentScores are as they were.
C26_BottomFishAlwaysTriggersWhenClear ==
    \A t \in Threads :
        (AtReturn(t) /\ frame[t].op = "fish" /\ ~frame[t].pre.mem.BottomFishUsedThisWeek) =>
            LET a      == frame[t].pre.mem
                score  == frame[t].arg
                m      == CASE score > One -> 150
                            [] score > 0 /\ score <= One -> 100
                            [] score < -50000 -> 50
                            [] score >= -50000 /\ score <= 0 -> 75
                want   == (m * a.WeeklyBaseN) \div 100
                amount == IF want < a.ReserveBalance THEN want ELSE a.ReserveBalance
            IN  /\ RetValue(frame[t]).triggered
                /\ RetValue(frame[t]).amount = amount
                /\ state.BottomFishUsedThisWeek
                /\ state.ReserveBalance = a.ReserveBalance - amount
                /\ state.RegularBalance = a.RegularBalance
                /\ state.ConsecutiveHighScoreWeeks = a.ConsecutiveHighScoreWeeks
                /\ Elems(heap, state.RecentScores) = a.RecentScores

\* A bottom-fish call on an empty reserve: triggered, for an amount of 0.
C26_Witness ==
    \E t \in Threads :
        /\ AtReturn(t)
        /\ frame[t].op = "fish"
        /\ frame[t].pre.mem.ReserveBalance = 0
        /\ ~frame[t].pre.mem.BottomFishUsedThisWeek
        /\ state.BottomFishUsedThisWeek
        /\ RetValue(frame[t]) = [kind |-> "fish", amount |-> 0, triggered |-> TRUE]

\* C27: every MonthlyReplenish, whatever the balances it finds, adds 70% of
\* MonthlyBudget to RegularBalance and 30% to ReserveBalance, so that the sum
\* of the two grows by MonthlyBudget with each call; the bottom-fish flag, the
\* streak and RecentScores are as they were.
C27_MonthlyReplenishAddsBudget ==
    \A t \in Threads :
        (AtReturn(t) /\ frame[t].op = "monthly") =>
            LET a == frame[t].pre.mem
            IN  /\ 100 * (state.RegularBalance - a.RegularBalance) = 70 * a.MonthlyBudget
                /\ 100 * (state.ReserveBalance - a.ReserveBalance) = 30 * a.MonthlyBudget
                /\ state.RegularBalance + state.ReserveBalance
                      = a.RegularBalance + a.ReserveBalance + a.MonthlyBudget
                /\ state.BottomFishUsedThisWeek = a.BottomFishUsedThisWeek
                /\ state.ConsecutiveHighScoreWeeks = a.ConsecutiveHighScoreWeeks
                /\ Elems(heap, state.RecentScores) = a.RecentScores

\* The fifth replenishment in a row after the seeding: it finds the reserve
\* above 6N already, and the pools hold six monthly budgets.
C27_Witness ==
    \E t \in Threads :
        /\ AtReturn(t)
        /\ frame[t].op = "monthly"
        /\ frame[t].pre.mem.ReserveBalance > 6 * state.WeeklyBaseN
        /\ state.RegularBalance + state.ReserveBalance = 6 * state.MonthlyBudget

\* C28: a QuarterlyRebalance takes one of three branches.  With the reserve
\* above 6N the reserve becomes 6N and the sum of the two balances is kept;
\* failing that, with a streak of at least 4 and the reserve below 3N, the
\* reserve becomes 3N and RegularBalance is kept; failing both, the two
\* balances are kept.  The message returned names the branch taken.
C28_QuarterlyRebalanceBranches ==
    \A t \in Threads :
        (AtReturn(t) /\ frame[t].op = "quarterly") =>
            LET a      == frame[t].pre.mem
                N      == a.WeeklyBaseN
                excess == a.ReserveBalance > 6 * N
                topUp  == ~excess /\ a.ConsecutiveHighScoreWeeks >= 4 /\ a.ReserveBalance < 3 * N
            IN  /\ excess =>
                      /\ state.ReserveBalance = 6 * N
                      /\ state.RegularBalance + state.ReserveBalance
                            = a.RegularBalance + a.ReserveBalance
                      /\ RetValue(frame[t]).msg = "excess"
                /\ topUp =>
                      /\ state.ReserveBalance = 3 * N
                      /\ state.RegularBalance = a.RegularBalance
                      /\ RetValue(frame[t]).msg = "topup"
                /\ (~excess /\ ~topUp) =>
                      /\ state.ReserveBalance = a.ReserveBalance
                      /\ state.RegularBalance = a.RegularBalance
                      /\ RetValue(frame[t]).msg = "none"

\* The emergency top-up: a streak of four weeks has emptied the reserve, and
\* the rebalance raises it to 3N with the regular pool as it was.
C28_Witness ==
    \E t \in Threads :
        /\ AtReturn(t)
        /\ frame[t].op = "quarterly"
        /\ frame[t].pre.mem.ConsecutiveHighScoreWeeks >= 4
        /\ frame[t].pre.mem.ReserveBalance = 0
        /\ state.ReserveBalance = 3 * state.WeeklyBaseN
        /\ state.RegularBalance = frame[t].pre.mem.RegularBalance

\* C29: at the return of ResetWeeklyFlags the bottom-fish flag is false and
\* both balances, WeeklyBaseN, MonthlyBudget, the streak and RecentScores are
\* what they were at its entry; and the first bottom-fish call after a reset
\* is triggered: a refused call always comes after a triggered one with no
\* reset in between.
C29_ResetReopensBottomFish ==
    /\ \A t \in Threads :
         (AtReturn(t) /\ frame[t].op = "reset") =>
            LET a == frame[t].pre.mem
            IN  /\ ~state.BottomFishUsedThisWeek
                /\ state.RegularBalance = a.RegularBalance
                /\ state.ReserveBalance = a.ReserveBalance
                /\ state.WeeklyBaseN = a.WeeklyBaseN
                /\ state.MonthlyBudget = a.MonthlyBudget
                /\ state.ConsecutiveHighScoreWeeks = a.ConsecutiveHighScoreWeeks
                /\ Elems(heap, state.RecentScores) = a.RecentScores
    /\ \A t \in Threads :
         (AtReturn(t) /\ frame[t].op = "fish") =>
            IF RetValue(frame[t]).triggered
            THEN fishSinceReset = 1 /\ ~frame[t].pre.mem.BottomFishUsedThisWeek
            ELSE fishSinceReset = 1 /\ frame[t].pre.mem.BottomFishUsedThisWeek

\* A bottom-fish call triggered for the second time: the week's call was used
\* in the run before, a reset of this run cleared the flag.
C29_Witness ==
    \E t \in Threads :
        /\ AtReturn(t)
        /\ frame[t].op = "fish"
        /\ RetValue(frame[t]).triggered
        /\ weeklyLog = <<>>
        /\ frame[t].pre.mem.UpdatedAt > 0
        /\ frame[t].pre.mem.ReserveBalance < ReserveShare(state)

\* C30: a weekly investment draws on the reserve pool exactly when its score
\* is at least 0.8.  From 0.8 up its tier has Multiplier 1.0 and a UseReserve
\* of 0.5, 1.0 or 1.5, no smaller for a higher score, and a reserve that is
\* not empty is reduced; below 0.8 its tier has UseReserve 0, it returns
\* reserveUsed = 0 and ReserveBalance is what it was.
C30_ReserveDrawnFromAddTierUp ==
    \A t \in Threads :
        (AtReturn(t) /\ frame[t].op = "weekly") =>
            LET a     == frame[t].pre.mem
                score == frame[t].arg
                tier  == Signal(score).Tier
            IN  /\ score >= 80000 =>
                      /\ tier.Multiplier = 100
                      /\ tier.UseReserve \in {50, 100, 150}
                      /\ \A lower \in Scores :
                            lower <= score => Signal(lower).Tier.UseReserve <= tier.UseReserve
                      /\ (a.ReserveBalance > 0) = (state.ReserveBalance < a.ReserveBalance)
                      /\ (a.ReserveBalance > 0) = (RetValue(frame[t]).reserveUsed > 0)
                /\ score < 80000 =>
                      /\ tier.UseReserve = 0
                      /\ state.ReserveBalance = a.ReserveBalance
                      /\ RetValue(frame[t]).reserveUsed = 0

\* A weekly investment with a score just below 0.8, on a reserve that holds
\* money: the regular pool pays the whole amount.
C30_Witness ==
    \E t \in Threads :
        /\ AtReturn(t)
        /\ frame[t].op = "weekly"
        /\ frame[t].arg = 79999
        /\ state.ReserveBalance > 0
        /\ state.RegularBalance < frame[t].pre.mem.RegularBalance

----------------------------------------------------------------------------
(* The factors, one by one *)

\* C31: the trend factor of every evaluated signal has the raw score +1.5
\* for price > MA20w > MA50w with the price less than 1% of the 30-day high
\* away from it, +1.0 for that alignment otherwise, -1.0 for
\* price < MA20w < MA50w with the price less than 1% of the 30-day low away
\* from it, -0.5 for that alignment otherwise, and 0 in every other case; a
\* bullish alignment scores at least +1.0, a bearish one at most -0.5.
C31_TrendFactorScores ==
    \A t \in Threads :
        Evaluated(t) =>
            LET ind      == task[t].ind
                raw      == task[t].signal.Factors[5].RawScore
                bullish  == ind.CurrentPrice > ind.MA20w /\ ind.MA20w > ind.MA50w
                bearish  == ind.CurrentPrice < ind.MA20w /\ ind.MA20w < ind.MA50w
                gapHigh  == IF ind.CurrentPrice > ind.High30d
                            THEN ind.CurrentPrice - ind.High30d ELSE ind.High30d - ind.CurrentPrice
                gapLow   == IF ind.CurrentPrice > ind.Low30d
                            THEN ind.CurrentPrice - ind.Low30d ELSE ind.Low30d - ind.CurrentPrice
                nearHigh == 100 * gapHigh < ind.High30d
                nearLow  == 100 * gapLow < ind.Low30d
            IN  /\ task[t].signal.Factors[5].Name = "Trend"
                /\ (bullish /\ nearHigh) => raw = 150000
                /\ (bullish /\ ~nearHigh) => raw = 100000
                /\ (bearish /\ nearLow) => raw = -100000
                /\ (bearish /\ ~nearLow) => raw = -50000
                /\ (~bullish /\ ~bearish) => raw = 0
                /\ bullish => raw >= 100000
                /\ bearish => raw <= -50000

\* A downtrend at its 30-day low: the price under the 20-week average, that
\* under the 50-week one, the 30-day low half a percent away.
C31_Witness ==
    \E t \in Threads :
        /\ Evaluated(t)
        /\ task[t].ind.CurrentPrice < task[t].ind.MA20w
        /\ task[t].ind.MA20w < task[t].ind.MA50w
        /\ task[t].ind.Low30d = 995
        /\ task[t].signal.Factors[5].RawScore = -100000

\* C32: with MA200 exactly 0 the MA200 factor of the signal has raw score 0,
\* weighted score 0 and weight 0.35; with MA200 above 0 its raw score is the
\* step of the ladder on the deviation d = (price - MA200) / MA200 * 100:
\* +2.0 for d <= -20, +1.5 for d <= -10, +1.0 for d <= -5, +0.5 for d <= 0,
\* 0 for d <= 5, -0.5 for d <= 10, -1.0 for d <= 15, -1.5 for d <= 20, -2.0
\* above.
C32_MA200FactorLadder ==
    \A t \in Threads :
        Evaluated(t) =>
            LET ind == task[t].ind
                f   == task[t].signal.Factors[1]
                \* d <= c and d > c, for MA200 > 0
                upTo(c)  == 100 * (ind.CurrentPrice - ind.MA200) <= c * ind.MA200
                above(c) == 100 * (ind.CurrentPrice - ind.MA200) > c * ind.MA200
            IN  /\ f.Name = "MA200" /\ f.Weight = 35
                /\ ind.MA200 = 0 => f.RawScore = 0 /\ f.Weighted = 0
                /\ ind.MA200 > 0 =>
                      /\ upTo(-20) => f.RawScore = 200000
                      /\ (above(-20) /\ upTo(-10)) => f.RawScore = 150000
                      /\ (above(-10) /\ upTo(-5)) => f.RawScore = 100000
                      /\ (above(-5) /\ upTo(0)) => f.RawScore = 50000
                      /\ (above(0) /\ upTo(5)) => f.RawScore = 0
                      /\ (above(5) /\ upTo(10)) => f.RawScore = -50000
                      /\ (above(10) /\ upTo(15)) => f.RawScore = -100000
                      /\ (above(15) /\ upTo(20)) => f.RawScore = -150000
                      /\ above(20) => f.RawScore = -200000

\* A 200-day average of exactly 0 under a positive price: the factor is
\* neutral.
C32_Witness ==
    \E t \in Threads :
        /\ Evaluated(t)
        /\ task[t].ind.MA200 = 0
        /\ task[t].ind.CurrentPrice > 0
        /\ task[t].signal.Factors[1].RawScore = 0
        /\ task[t].signal.Factors[1].Weighted = 0

----------------------------------------------------------------------------
(* SpecEvents: the scheduler's tasks with their local variables followed,   *)
(* started on the file of an earlier run, so that every branch of the       *)
(* quarterly rebalance is taken; the network and the disk do not fail.      *)

NextEvents ==
    \/ \E t \in 1..NumThreads : \E k \in Triggers : LaunchObserved(t, k)
    \/ \E t \in 1..NumThreads : \E feed \in GoodFeeds : TaskCollect(t, feed)
    \/ \E t \in 1..NumThreads : TaskEvaluate(t)
    \/ \E t \in 1..NumThreads : TaskCall(t)
    \/ \E t \in 1..NumThreads : WeeklyAmounts(t)
    \/ \E t \in 1..NumThreads : WeeklyWithdraw(t)
    \/ \E t \in 1..NumThreads : WeeklyTrack(t)
    \/ \E t \in 1..NumThreads : FishCheck(t)
    \/ \E t \in 1..NumThreads : FishApply(t)
    \/ \E t \in 1..NumThreads : MonthlyRegular(t)
    \/ \E t \in 1..NumThreads : MonthlyReserve(t)
    \/ \E t \in 1..NumThreads : QuarterlyBranch(t)
    \/ \E t \in 1..NumThreads : ResetClear(t)
    \/ \E t \in 1..NumThreads : GetCopy(t)
    \/ \E t \in 1..NumThreads : SaveOk(t)
    \/ \E t \in 1..NumThreads : TaskReturn(t)
    \/ \E t \in 1..NumThreads : SendWithRetry(t, TrySendRetries)
    \/ \E t \in 1..NumThreads : SendOk(t)
    \/ \E t \in 1..NumThreads : TrySendReturn(t)
    \/ \E t \in 1..NumThreads : TaskReply(t)
    \/ \E t \in 1..NumThreads : TaskRecord(t)
    \/ \E t \in 1..NumThreads : TaskDone(t)

SpecEvents == InitWith(NumThreads, Budgets, Histories) /\ [][NextEvents]_vars

\* C33: the fund event a task records for its own mutating operation has
\* before and after balances that differ by what that operation did to the
\* two pools, and the action of the quarterly record names the branch
\* QuarterlyRebalance took in that task's call, whatever other triggers do
\* between the task's GetState calls and its Manager call.
C33_EventShowsOwnEffect ==
    \A t \in Threads :
        Observed(t) =>
            \A i \in 1..Len(task[t].recorded) :
                LET e   == task[t].recorded[i]
                    own == task[t].own
                IN  IF e.EventType = "QuarterlyEvent"
                    THEN e.Action = CASE task[t].got.msg = "excess" -> "TRANSFER_EXCESS"
                                      [] task[t].got.msg = "topup"  -> "EMERGENCY_TOPUP"
                                      [] task[t].got.msg = "none"   -> "NO_ACTION"
                    ELSE /\ e.RegularAfter - e.RegularBefore
                               = own.after.RegularBalance - own.before.RegularBalance
                         /\ e.ReserveAfter - e.ReserveBefore
                               = own.after.ReserveBalance - own.before.ReserveBalance

\* C33's failing case: on a freshly seeded fund the monthly and the quarterly
\* task run together; the replenishment falls between the quarterly task's
\* first GetState and its rebalance, which adjusts nothing, and the task
\* records an emergency top-up of the replenished amount.
C33_Witness ==
    \E t, u \in Threads :
        /\ Observed(t) /\ Observed(u)
        /\ task[t].kind = "quarterly"
        /\ task[u].kind = "monthly"
        /\ task[t].got = [kind |-> "msg", msg |-> "none"]
        /\ task[t].own.before = task[t].own.after
        /\ task[t].recorded =
              << [EventType |-> "QuarterlyEvent", Action |-> "EMERGENCY_TOPUP",
                  Amount |-> ReserveShare(state)],
                 [EventType |-> "QUARTERLY",
                  RegularBefore |-> RegularShare(state), RegularAfter |-> 2 * RegularShare(state),
                  ReserveBefore |-> ReserveShare(state), ReserveAfter |-> 2 * ReserveShare(state),
                  Amount |-> ReserveShare(state)] >>

\* C34: the amount of a WEEKLY fund event is the total that weekly investment
\* withdrew: where the event's before and after balances are those the
\* investment itself found and left, Amount equals (RegularBefore -
\* RegularAfter) + (ReserveBefore - ReserveAfter), which equals finalAmount,
\* in the reserve-drawing tiers too.
C34_WeeklyEventAmountIsWithdrawn ==
    \A t \in Threads :
        Observed(t) =>
            \A i \in 1..Len(task[t].recorded) :
                LET e   == task[t].recorded[i]
                    own == task[t].own
                IN  (/\ e.EventType = "WEEKLY"
                     /\ e.RegularBefore = own.before.RegularBalance
                     /\ e.RegularAfter = own.after.RegularBalance
                     /\ e.ReserveBefore = own.before.ReserveBalance
                     /\ e.ReserveAfter = own.after.ReserveBalance) =>
                        /\ (e.RegularBefore - e.RegularAfter) + (e.ReserveBefore - e.ReserveAfter)
                              = task[t].got.finalAmount
                        /\ e.Amount = task[t].got.finalAmount

\* C34's failing case: a weekly task alone on a freshly seeded fund, with a
\* signal of the 'heavy' tier: 700 from each pool, finalAmount 1400, and an
\* event amount of 2100.
C34_Witness ==
    \E t \in Threads :
        /\ Observed(t)
        /\ task[t].kind = "weekly"
        /\ Evaluated(t)
        /\ task[t].signal.Tier.Label = "heavy"
        /\ task[t].got = [kind |-> "weekly", finalAmount |-> 1400, reserveUsed |-> 700]
        /\ task[t].recorded =
              << [EventType |-> "WEEKLY",
                  RegularBefore |-> 3031, RegularAfter |-> 2331,
                  ReserveBefore |-> 1299, ReserveAfter |-> 599,
                  Amount |-> 2100] >>

----------------------------------------------------------------------------
(* Commands *)

\* C38 as stated: only the weekly command changes the fund, and every
\* invocation of it runs a full weekly cycle with one
\* CalculateWeeklyInvestment; the other commands call no mutating method.
C38_WeeklyCommandAlwaysInvests ==
    \A t \in Threads :
        /\ (Running(t) /\ task[t].kind \in Commands \ {"/weekly"}) => task[t].calls = 0
        /\ (Running(t) /\ task[t].kind = "/weekly" /\ task[t].todo = <<>>) => task[t].calls = 1

\* C38: the fund-status command, the monthly-report command and an unknown
\* command call no mutating method, and no step of theirs changes the state
\* in memory or the file.  The weekly command is the one that changes the
\* fund: when its data collection succeeds it runs the weekly cycle with one
\* CalculateWeeklyInvestment, which records the signal's score, per
\* invocation; when the collection fails it calls no Manager method.
C38_OnlyWeeklyCommandChangesFund ==
    /\ [](\A t \in Threads :
            /\ (Running(t) /\ task[t].kind \in Commands \ {"/weekly"}) =>
                  /\ task[t].calls = 0
                  /\ \A k \in DOMAIN task[t].todo : task[t].todo[k] \notin Mutating
            /\ (Running(t) /\ task[t].kind = "/weekly") =>
                  /\ task[t].calls <= 1
                  /\ \A k \in DOMAIN task[t].todo : task[t].todo[k] \notin Mutating \ {"weekly"}
                  /\ task[t].todo = <<>> => task[t].calls = IF task[t].collectErr THEN 0 ELSE 1
                  /\ task[t].collectErr => pc[t] = "idle")
    /\ [][\A t \in Threads :
            /\ (/\ Running(t)
                /\ task[t].kind \in Commands \ {"/weekly"}
                /\ (pc'[t] # pc[t] \/ task'[t] # task[t]))
                   => state' = state /\ file' = file
            /\ (/\ Running(t)
                /\ task[t].kind = "/weekly"
                /\ (state' # state \/ file' # file)
                /\ pc'[t] # pc[t])
                   => frame[t].op = "weekly"]_vars

\* A weekly command has run its cycle to the end: its one investment is in
\* the window and on disk.
C38_Witness ==
    \E t \in Threads :
        /\ Running(t)
        /\ task[t].kind = "/weekly"
        /\ task[t].todo = <<>>
        /\ task[t].calls = 1
        /\ ~task[t].collectErr
        /\ Len(weeklyLog) = 1
        /\ state.RecentScores.len = 1
        /\ file = FileJSON(Marshal(heap, state))

----------------------------------------------------------------------------
(* Invariants of the fund *)

\* C35: in every state reached from a freshly seeded fund, with k the value
\* of ConsecutiveHighScoreWeeks, k >= 0, the last min(k, 12) entries of
\* RecentScores are all above 1.0, and when k is smaller than the number of
\* entries the entry just before those is at most 1.0.
C35_StreakMatchesWindow ==
    Up =>
        LET k      == state.ConsecutiveHighScoreWeeks
            scores == Elems(heap, state.RecentScores)
            n      == Len(scores)
            m      == IF k < 12 THEN k ELSE 12
        IN  /\ k >= 0
            /\ m <= n
            /\ \A i \in (n - m + 1)..n : scores[i] > One
            /\ k < n => scores[n - k] <= One

\* A streak that has outgrown the window: more than 12 weeks above 1.0 in a
\* row, the window holding the last 12 of them.
C35_Witness ==
    /\ Up
    /\ state.ConsecutiveHighScoreWeeks > WindowLen
    /\ state.RecentScores.len = WindowLen
    /\ state.RecentScores.off > 0


\* C36: whenever no call is under way, RegularBalance + ReserveBalance plus
\* everything the weekly and the triggered bottom-fish calls have returned
\* equals the balances the process started with plus MonthlyBudget for every
\* MonthlyReplenish plus the emergency top-ups of QuarterlyRebalance; the
\* excess transfer and ResetWeeklyFlags add to neither side.
C36_FundsConserved ==
    (Up /\ mu = 0) =>
        state.RegularBalance + state.ReserveBalance + ledger.paid
            = ledger.initial + ledger.replenished + ledger.toppedUp

\* Money has gone out through an investment and come in through an
\* emergency top-up, after a streak of four weeks that emptied the reserve.
C36_Witness ==
    /\ Up
    /\ mu = 0
    /\ ledger.paid > 0
    /\ ledger.toppedUp > 0
    /\ state.ReserveBalance < 3 * state.WeeklyBaseN


----------------------------------------------------------------------------
(* The factors' scales *)

\* The scale of raw scores: -2.0 to +2.0 in steps of 0.5.
RawScale == {50000 * i : i \in -4..4}

\* Values of an RSI and of a 52-week position in percent, on and next to
\* every bound of the ladders; prices around an average of 1000 likewise.
PercentProbes ==
    {0, 10, 11, 20, 21, 24, 25, 26, 30, 31, 40, 41, 45, 46, 55, 56, 60, 61,
     70, 71, 80, 81, 95, 96, 100}
PriceProbes ==
    {700, 799, 800, 801, 900, 901, 950, 951, 1000, 1001, 1050, 1051, 1100, 1101,
     1150, 1151, 1200, 1201, 1400}

\* The mean of the four raw scores the position factor is given.
OtherFactorsAvg(signal) ==
    (signal.Factors[1].RawScore + signal.Factors[2].RawScore
        + signal.Factors[3].RawScore + signal.Factors[5].RawScore) \div 4

\* The indicators of an evaluation with one metric replaced.
WithPrice(ind, p)     == [ind EXCEPT !.CurrentPrice = p]
WithWeeklyRSI(ind, r) == [ind EXCEPT !.WeeklyRSI = r]
WithDailyRSI(ind, r)  == [ind EXCEPT !.DailyRSI = r]
WithPosition(ind, c)  == [ind EXCEPT !.Position52w = [n |-> c, d |-> 100]]

\* The raw scores of an evaluation are on the scale, and the MA200 factor
\* (for an average that is available) and the two RSI factors do not
\* increase with their metric.
LaddersNonIncreasing(t) ==
    LET ind == task[t].ind
    IN  /\ \A i \in 1..5 : task[t].signal.Factors[i].RawScore \in RawScale
        /\ \A p, q \in PriceProbes \cup {ind.CurrentPrice} :
              p <= q => scoreMA200Deviation(WithPrice(ind, p)).RawScore
                            >= scoreMA200Deviation(WithPrice(ind, q)).RawScore
        /\ \A r, s \in PercentProbes \cup {ind.WeeklyRSI, ind.DailyRSI} :
              r <= s =>
                  /\ scoreWeeklyRSI(WithWeeklyRSI(ind, r)).RawScore
                        >= scoreWeeklyRSI(WithWeeklyRSI(ind, s)).RawScore
                  /\ scoreDailyRSI(WithDailyRSI(ind, r)).RawScore
                        >= scoreDailyRSI(WithDailyRSI(ind, s)).RawScore

\* The statement as first made: also the position factor, with the mean of
\* the evaluation's other four factors, never increases with the position.
C37_AllFactorsNonIncreasing ==
    \A t \in Threads :
        Evaluated(t) =>
            /\ LaddersNonIncreasing(t)
            /\ \A c, e \in PercentProbes :
                  c <= e =>
                      score52WeekPosition(WithPosition(task[t].ind, c),
                                          OtherFactorsAvg(task[t].signal)).RawScore
                        >= score52WeekPosition(WithPosition(task[t].ind, e),
                                               OtherFactorsAvg(task[t].signal)).RawScore

\* C37: every factor's raw score is on the scale -2.0 to +2.0 in steps of
\* 0.5; for the MA200 deviation and the two RSIs a larger metric never gives
\* a larger raw score; for the 52-week position the same holds when the mean
\* of the other factors is below -1.0, and with a mean of -1.0 or more it
\* holds for positions up to 95%, above which the raw score is -1.0, higher
\* than the -1.5 of positions between 80% and 95%.
C37_FactorsNonIncreasing ==
    \A t \in Threads :
        Evaluated(t) =>
            LET avg    == OtherFactorsAvg(task[t].signal)
                pos(c) == score52WeekPosition(WithPosition(task[t].ind, c), avg).RawScore
            IN  /\ LaddersNonIncreasing(t)
                /\ \A c \in PercentProbes : pos(c) \in RawScale
                /\ \A c, e \in PercentProbes :
                      (c <= e /\ (avg < -One \/ e <= 95)) => pos(c) >= pos(e)
                /\ avg >= -One =>
                      \A c, e \in PercentProbes :
                          (80 < c /\ c <= 95 /\ 95 < e) =>
                              pos(c) = -150000 /\ pos(e) = -100000

\* An evaluation at more than 95% of the 52-week range whose other factors
\* average below -1.0, so that its position factor scores -2.0.
C37_Witness ==
    \E t \in Threads :
        /\ Evaluated(t)
        /\ OtherFactorsAvg(task[t].signal) < -One
        /\ task[t].ind.Position52w.n * 100 > 95 * task[t].ind.Position52w.d
        /\ task[t].signal.Factors[4].RawScore = -200000
        /\ task[t].ind.MA200 > 0


----------------------------------------------------------------------------
(* The weekly limit across restarts *)

\* The state file can be loaded and records the bottom-fish flag as set.
FileFlagged == file.kind = "json" /\ file.data.bottom_fish_used_this_week

\* The flag is set on disk and, while a process runs, in memory.
LimitStands == FileFlagged /\ (Up => state.BottomFishUsedThisWeek)

\* A step of ResetWeeklyFlags' assignment (manager.go:173).
ResetStep == \E t \in Threads : pc[t] = "r_clear" /\ pc'[t] = "save"

\* What a restart finds and what bottom-fish calls do once the flag is set:
\* the limit stands until a ResetWeeklyFlags or a write that leaves no
\* loadable file; a Manager constructed on a flagged file has the flag and
\* the file's reserve balance; a call that finds the flag is refused.
LimitKept ==
    /\ [](\A t \in Threads :
            (AtReturn(t) /\ frame[t].op = "fish" /\ frame[t].pre.mem.BottomFishUsedThisWeek) =>
                /\ ~RetValue(frame[t]).triggered
                /\ RetValue(frame[t]).amount = 0
                /\ state.ReserveBalance = frame[t].pre.mem.ReserveBalance)
    /\ [][(LimitStands /\ ~ResetStep) => (LimitStands' \/ file'.kind = "partial")]_vars
    /\ [][(Started /\ FileFlagged) =>
              /\ state'.BottomFishUsedThisWeek
              /\ state'.ReserveBalance = file.data.reserve_balance]_vars

\* The statement as first made: every triggered bottom-fish call leaves the
\* flag and the reduced reserve in the state file, from which the limit is kept.
C39_TriggeredCallSurvivesRestart ==
    /\ [](\A t \in Threads :
            (AtReturn(t) /\ frame[t].op = "fish" /\ RetValue(frame[t]).triggered) =>
                /\ LimitStands
                /\ file.data.reserve_balance
                      = frame[t].pre.mem.ReserveBalance - RetValue(frame[t]).amount)
    /\ LimitKept

\* C39: a triggered CalculateBottomFishInvestment whose save succeeded leaves
\* the flag and the reduced reserve balance in the state file; from then until
\* the next ResetWeeklyFlags (or a failed write that leaves no loadable file)
\* the file and the running process keep the flag, a Manager constructed from
\* the file has the flag set and the file's reserve balance, and bottom-fish
\* calls that find the flag return not-triggered and withdraw nothing.
C39_SavedLimitSurvivesRestart ==
    /\ [](\A t \in Threads :
            (AtReturn(t) /\ frame[t].op = "fish" /\ RetValue(frame[t]).triggered
                /\ ~frame[t].saveErr) =>
                /\ LimitStands
                /\ file.data.reserve_balance
                      = frame[t].pre.mem.ReserveBalance - RetValue(frame[t]).amount)
    /\ LimitKept

\* A process started on the file of an earlier run that bottom-fished: it has
\* booked nothing itself, holds the flag and the reduced reserve, and has
\* refused a bottom-fish call.
C39_Witness ==
    \E t \in Threads :
        /\ AtReturn(t)
        /\ frame[t].op = "fish"
        /\ ~RetValue(frame[t]).triggered
        /\ state.BottomFishUsedThisWeek
        /\ ledger = Opening(state)
        /\ state.ReserveBalance > 0
        /\ state.ReserveBalance < (state.MonthlyBudget * 30) \div 100
        /\ FileFlagged

====
